---- MODULE Spec2Model ----
(***************************************************************************)
(* FraudGuardAI analysis engine (src/services/analysisService.ts).         *)
(*                                                                         *)
(* performAnalysis is modelled pass by pass: every pass of the function is *)
(* one action, executed in the order of the source text.  Amounts are      *)
(* integers; a JavaScript number that may be NaN is a record               *)
(* [nan, n]; a fraction is a record [num, den].  Strings are sequences of  *)
(* one-character strings.  Times are counted in days since the epoch       *)
(* (getTime() / 86400000).                                                 *)
(***************************************************************************)
EXTENDS Integers, Sequences, FiniteSets, TLC

VARIABLES appState, numericColumns, dateColumns, categoryColumns, idColumns,
          activeConfig, bestConfig,
          data, config, pc, paretoData, entityData, entityMap, topAnomalies,
          chartData2Digit, chartData,
          validRows, totalAmount, cleanValues, anomalies,
          rowStrings, invoiceIdMap, scatterData, riskMap,
          digitCounts, digitCounts2, benfordValidCount, benford2ValidCount,
          hasTimeData, minDate, maxDate,
          lowerBound, upperBound,
          totalAtRisk, riskBreakdown, forecastLoss,
          conformity, conformity2Digit, riskScore, riskLevel,
          timeSeriesMap, networkLinks, timeSeriesData, graphData

\* The state of the App component and the last result of detectBestColumns.
appVars == <<appState, numericColumns, dateColumns, categoryColumns, idColumns,
             activeConfig, bestConfig>>

vars == <<appState, numericColumns, dateColumns, categoryColumns, idColumns,
          activeConfig, bestConfig,
          data, config, pc, paretoData, entityData, entityMap, topAnomalies,
          chartData2Digit, chartData,
          validRows, totalAmount, cleanValues, anomalies,
          rowStrings, invoiceIdMap, scatterData, riskMap,
          digitCounts, digitCounts2, benfordValidCount, benford2ValidCount,
          hasTimeData, minDate, maxDate,
          lowerBound, upperBound,
          totalAtRisk, riskBreakdown, forecastLoss,
          conformity, conformity2Digit, riskScore, riskLevel,
          timeSeriesMap, networkLinks, timeSeriesData, graphData>>

\* The time series and the network graph: the maps the main pass fills and
\* the arrays of the result.
flowVars == <<timeSeriesMap, networkLinks, timeSeriesData, graphData>>

(***************************************************************************)
(* Cell values: string | number | null | undefined.                        *)
(***************************************************************************)
Absent == [t |-> "undefined", n |-> 0, s |-> <<>>]
Null == [t |-> "null", n |-> 0, s |-> <<>>]
Str(s) == [t |-> "string", n |-> 0, s |-> s]
Num(n) == [t |-> "number", n |-> n, s |-> <<>>]

\* A JavaScript number result that may be NaN.
NaN == [nan |-> TRUE, n |-> 0]
Val(n) == [nan |-> FALSE, n |-> n]

Abs(n) == IF n < 0 THEN -n ELSE n

Digits == {"0", "1", "2", "3", "4", "5", "6", "7", "8", "9"}

DigitVal(c) ==
    CASE c = "0" -> 0 [] c = "1" -> 1 [] c = "2" -> 2 [] c = "3" -> 3
      [] c = "4" -> 4 [] c = "5" -> 5 [] c = "6" -> 6 [] c = "7" -> 7
      [] c = "8" -> 8 [] c = "9" -> 9

DigitChar(d) ==
    CASE d = 0 -> "0" [] d = 1 -> "1" [] d = 2 -> "2" [] d = 3 -> "3"
      [] d = 4 -> "4" [] d = 5 -> "5" [] d = 6 -> "6" [] d = 7 -> "7"
      [] d = 8 -> "8" [] d = 9 -> "9"

\* s.replace(/,/g, '')
StripCommas(s) == SelectSeq(s, LAMBDA c : c # ",")

\* String.prototype.trim
RECURSIVE TrimLeft(_)
TrimLeft(s) ==
    IF s # <<>> /\ Head(s) = " " THEN TrimLeft(Tail(s)) ELSE s

RECURSIVE TrimRight(_)
TrimRight(s) ==
    IF s # <<>> /\ s[Len(s)] = " " THEN TrimRight(SubSeq(s, 1, Len(s) - 1)) ELSE s

Trim(s) == TrimRight(TrimLeft(s))

\* The longest prefix of s made of decimal digits, read as an integer
\* (acc is the value read so far, seen tells whether a digit was read).
RECURSIVE ReadDigits(_, _, _)
ReadDigits(s, acc, seen) ==
    IF s # <<>> /\ Head(s) \in Digits
    THEN ReadDigits(Tail(s), 10 * acc + DigitVal(Head(s)), TRUE)
    ELSE IF seen THEN Val(acc) ELSE NaN

\* parseFloat on the alphabet of the model (no '.', no exponent): leading
\* white space is skipped, an optional sign is read, then the longest digit
\* prefix; NaN when there is no digit.
ParseFloat(s) ==
    LET t == TrimLeft(s)
    IN  IF t # <<>> /\ Head(t) = "-"
        THEN LET r == ReadDigits(Tail(t), 0, FALSE)
             IN  IF r.nan THEN NaN ELSE Val(-r.n)
        ELSE IF t # <<>> /\ Head(t) = "+"
        THEN ReadDigits(Tail(t), 0, FALSE)
        ELSE ReadDigits(t, 0, FALSE)

\* Number(v) for a value that is not a string (the only use in the source):
\* Number(null) = 0, Number(undefined) = NaN.
ToNumber(v) ==
    CASE v.t = "number" -> Val(v.n)
      [] v.t = "null" -> Val(0)
      [] v.t = "undefined" -> NaN

\* typeof valRaw === 'string' ? parseFloat(valRaw.replace(/,/g, '')) : Number(valRaw)
ParseAmount(v) ==
    IF v.t = "string" THEN ParseFloat(StripCommas(v.s)) ELSE ToNumber(v)

\* String(n) for an integer n.
RECURSIVE NatToString(_)
NatToString(n) ==
    IF n < 10 THEN <<DigitChar(n)>>
    ELSE Append(NatToString(n \div 10), DigitChar(n % 10))

IntToString(n) == IF n < 0 THEN <<"-">> \o NatToString(-n) ELSE NatToString(n)

\* String(v)
JSString(v) ==
    CASE v.t = "string" -> v.s
      [] v.t = "number" -> IntToString(v.n)
      [] v.t = "null" -> <<"n", "u", "l", "l">>
      [] v.t = "undefined" -> <<"u", "n", "d", "e", "f", "i", "n", "e", "d">>

\* JavaScript truthiness of a cell value.
Truthy(v) ==
    CASE v.t = "string" -> v.s # <<>>
      [] v.t = "number" -> v.n # 0
      [] v.t = "null" -> FALSE
      [] v.t = "undefined" -> FALSE

(***************************************************************************)
(* Rows and configuration.                                                 *)
(***************************************************************************)
\* Column order of a row object (Object.keys order).
Headers == <<"amt", "inv", "date", "src", "cat",
            "Qty", "Total", "Cost", "Paid", "Type", "Date">>

\* An optional column name that was not given (undefined).
NoCol == ""

\* row[col]
Cell(row, col) == IF col \in DOMAIN row THEN row[col] ELSE Absent

\* JSON.stringify of a cell value (the model's strings need no escaping).
JSONValue(v) ==
    CASE v.t = "string" -> <<"\"">> \o v.s \o <<"\"">>
      [] v.t = "number" -> IntToString(v.n)
      [] v.t = "null" -> <<"n", "u", "l", "l">>
      [] v.t = "undefined" -> <<>>

\* JSON.stringify(row): the keys in column order, a key whose value is
\* undefined is left out (first tells that no key was written yet).
RECURSIVE JSONFrom(_, _, _)
JSONFrom(row, k, first) ==
    IF k > Len(Headers) THEN <<"}">>
    ELSE LET h == Headers[k]
             v == Cell(row, h)
         IN  IF v.t = "undefined" THEN JSONFrom(row, k + 1, first)
             ELSE (IF first THEN <<>> ELSE <<",">>)
                  \o <<"\"", h, "\"", ":">> \o JSONValue(v)
                  \o JSONFrom(row, k + 1, FALSE)

\* A serialization that writes no key.
JSONStringifyNoKeys(row) == <<"{", "}">>

JSONStringify(row) == <<"{">> \o JSONFrom(row, 1, TRUE)

\* forEach over the positions lo..hi in ascending order, st being the state
\* the body updates.  The range is split in halves and the first half is
\* evaluated (the test first = first) before the second, which keeps the
\* evaluation shallow on long inputs.
RECURSIVE ForEach(_, _, _, _)
ForEach(Body(_, _), st, lo, hi) ==
    IF lo > hi THEN st
    ELSE IF lo = hi THEN Body(st, lo)
    ELSE LET mid == (lo + hi) \div 2
             first == ForEach(Body, st, lo, mid)
         IN  IF first = first THEN ForEach(Body, first, mid + 1, hi) ELSE st

\* Map<string, number[]> in insertion order: a sequence of [key, indices].
MapHas(m, key) == \E j \in 1..Len(m) : m[j].key = key

MapPush(m, key, rowIndex) ==
    IF MapHas(m, key)
    THEN [j \in 1..Len(m) |->
            IF m[j].key = key
            THEN [m[j] EXCEPT !.indices = Append(@, rowIndex)]
            ELSE m[j]]
    ELSE Append(m, [key |-> key, indices |-> <<rowIndex>>])

\* Map<number, number>.set
MapSet(m, k, v) == [x \in (DOMAIN m) \cup {k} |-> IF x = k THEN v ELSE m[x]]

(***************************************************************************)
(* Digit extraction.                                                       *)
(***************************************************************************)
NonZeroDigits == Digits \ {"0"}

\* str.match(/[1-9]/): the first non-zero digit anywhere in the string,
\* 0 stands for null.
RECURSIVE FirstNonZeroDigit(_)
FirstNonZeroDigit(s) ==
    IF s = <<>> THEN 0
    ELSE IF Head(s) \in NonZeroDigits THEN DigitVal(Head(s))
    ELSE FirstNonZeroDigit(Tail(s))

\* The digit read from the first character only.
extractFirstCharacter(v) ==
    IF v.t \in {"null", "undefined"} \/ JSString(v) = <<>> THEN 0
    ELSE IF Head(JSString(v)) \in NonZeroDigits THEN DigitVal(Head(JSString(v)))
    ELSE 0

extractLeadingDigit(v) ==
    IF v.t \in {"null", "undefined"} THEN 0 ELSE FirstNonZeroDigit(JSString(v))

\* str.replace(/^0+/, '')
RECURSIVE StripLeadingZeros(_)
StripLeadingZeros(s) ==
    IF s # <<>> /\ Head(s) = "0" THEN StripLeadingZeros(Tail(s)) ELSE s

\* 0 stands for null.
extractLeadingTwoDigits(v) ==
    IF v.t \in {"null", "undefined"} THEN 0
    ELSE LET str == SelectSeq(JSString(v), LAMBDA c : c \in Digits)
             cleanStr == StripLeadingZeros(str)
         IN  IF Len(cleanStr) >= 2
             THEN 10 * DigitVal(cleanStr[1]) + DigitVal(cleanStr[2])
             ELSE 0

(***************************************************************************)
(* Dates.                                                                  *)
(***************************************************************************)
\* Day number of the spreadsheet serial date of the epoch.
ExcelEpoch == 25569

\* new Date(string).getTime() in days.  The date strings of the model are
\* free of digits, for which Date.parse returns NaN.
DateParse(s) == NaN

\* The Date built from a cell value, as getTime() in days (NaN: no Date or
\* an invalid Date).
DateOf(v) ==
    CASE v.t = "number" -> Val(v.n - ExcelEpoch)
      [] v.t = "string" -> DateParse(v.s)
      [] OTHER -> NaN

\* minDate and maxDate start at Number.MAX_VALUE and Number.MIN_VALUE (the
\* smallest positive double); lim names the limit, or is "" for a time t.
MAX_VALUE == [lim |-> "MAX_VALUE", t |-> 0]
MIN_VALUE == [lim |-> "MIN_VALUE", t |-> 0]
Time(t) == [lim |-> "", t |-> t]

\* time < minDate
TimeBelow(time, d) ==
    CASE d.lim = "MAX_VALUE" -> TRUE
      [] d.lim = "MIN_VALUE" -> time <= 0
      [] OTHER -> time < d.t

\* time > maxDate
TimeAbove(time, d) ==
    CASE d.lim = "MAX_VALUE" -> FALSE
      [] d.lim = "MIN_VALUE" -> time > 0
      [] OTHER -> time > d.t

(***************************************************************************)
(* Pass 1 (main pass).                                                     *)
(***************************************************************************)
MissingValue == "Missing Value"
NegativeAmount == "Negative Amount"
StatisticalOutlier == "Statistical Outlier"
DuplicateRecord == "Duplicate Record"
DuplicateInvoiceID == "Duplicate Invoice ID"

Anomaly(rowIndex, type, value) ==
    [rowIndex |-> rowIndex, type |-> type, value |-> value]

\* The local state of performAnalysis before the first pass.
MainStart ==
    [validRows |-> 0, totalAmount |-> 0, cleanValues |-> <<>>,
     anomalies |-> <<>>, rowStrings |-> <<>>, invoiceIdMap |-> <<>>,
     riskMap |-> <<>>,
     digitCounts |-> [d \in 1..9 |-> 0],
     digitCounts2 |-> [d \in 10..99 |-> 0],
     benfordValidCount |-> 0, benford2ValidCount |-> 0,
     hasTimeData |-> FALSE, minDate |-> MAX_VALUE, maxDate |-> MIN_VALUE,
     entityMap |-> <<>>, timeSeriesMap |-> <<>>, networkLinks |-> <<>>]

\* Benford counting of one row with benfordSource = val.
BenfordRowOfAmount(st, cfg, row, val) ==
    LET firstDigit == extractLeadingDigit(Num(val))
        firstTwoDigits == extractLeadingTwoDigits(Num(val))
        two == firstTwoDigits # 0 /\ firstTwoDigits >= 10 /\ firstTwoDigits <= 99
    IN  [st EXCEPT
           !.digitCounts =
               IF firstDigit # 0 THEN [@ EXCEPT ![firstDigit] = @ + 1] ELSE @,
           !.benfordValidCount = IF firstDigit # 0 THEN @ + 1 ELSE @,
           !.digitCounts2 =
               IF two THEN [@ EXCEPT ![firstTwoDigits] = @ + 1] ELSE @,
           !.benford2ValidCount = IF two THEN @ + 1 ELSE @]

\* Benford counting of one row.
BenfordRow(st, cfg, row, val) ==
    LET benfordSource == IF cfg.invoiceColumnName # NoCol
                         THEN Cell(row, cfg.invoiceColumnName)
                         ELSE Num(val)
        firstDigit == extractLeadingDigit(benfordSource)
        firstTwoDigits == extractLeadingTwoDigits(benfordSource)
        two == firstTwoDigits # 0 /\ firstTwoDigits >= 10 /\ firstTwoDigits <= 99
    IN  [st EXCEPT
           !.digitCounts =
               IF firstDigit # 0 THEN [@ EXCEPT ![firstDigit] = @ + 1] ELSE @,
           !.benfordValidCount = IF firstDigit # 0 THEN @ + 1 ELSE @,
           !.digitCounts2 =
               IF two THEN [@ EXCEPT ![firstTwoDigits] = @ + 1] ELSE @,
           !.benford2ValidCount = IF two THEN @ + 1 ELSE @]

\* Duplicate-key bookkeeping of one row (exact row and invoice ID).
DuplicateKeysRow(st, cfg, row, rowIndex) ==
    LET inv == Cell(row, cfg.invoiceColumnName)
        idVal == Trim(JSString(inv))
    IN  [st EXCEPT
           !.rowStrings = MapPush(@, JSONStringify(row), rowIndex),
           !.invoiceIdMap =
               IF cfg.invoiceColumnName # NoCol /\ Truthy(inv) /\ idVal # <<>>
               THEN MapPush(@, idVal, rowIndex)
               ELSE @]

\* String(row[categoryColumnName] || 'Unknown')
EntityKey(v) ==
    IF Truthy(v) THEN JSString(v) ELSE <<"U", "n", "k", "n", "o", "w", "n">>

\* entityMap.get(entity) || {count: 0, total: 0}, updated and set: the map in
\* insertion order as a sequence of [id, count, total] (the amounts list of
\* an entity is written and never read).
\* The entry of the entity replaced by one holding the row alone.
EntityPushAlone(m, entity, val) ==
    IF \E j \in 1..Len(m) : m[j].id = entity
    THEN [j \in 1..Len(m) |->
            IF m[j].id = entity
            THEN [id |-> entity, count |-> 1, total |-> val]
            ELSE m[j]]
    ELSE Append(m, [id |-> entity, count |-> 1, total |-> val])

EntityPush(m, entity, val) ==
    IF \E j \in 1..Len(m) : m[j].id = entity
    THEN [j \in 1..Len(m) |->
            IF m[j].id = entity
            THEN [m[j] EXCEPT !.count = @ + 1, !.total = @ + val]
            ELSE m[j]]
    ELSE Append(m, [id |-> entity, count |-> 1, total |-> val])

\* Entity bookkeeping of one row.
EntityRow(st, cfg, row, val) ==
    IF cfg.categoryColumnName # NoCol
    THEN [st EXCEPT !.entityMap =
             EntityPush(@, EntityKey(Cell(row, cfg.categoryColumnName)), val)]
    ELSE st

\* String(row[column] || 'Unknown')
LinkName(v) ==
    IF Truthy(v) THEN JSString(v) ELSE <<"U", "n", "k", "n", "o", "w", "n">>

\* `${sourceVal}|${targetVal}`
LinkKey(sourceVal, targetVal) == sourceVal \o <<"|">> \o targetVal

\* networkLinks.set(linkKey, (networkLinks.get(linkKey) || 0) + val): the
\* map in insertion order as a sequence of [key, value].
LinkPush(m, linkKey, val) ==
    IF \E j \in 1..Len(m) : m[j].key = linkKey
    THEN [j \in 1..Len(m) |->
            IF m[j].key = linkKey THEN [m[j] EXCEPT !.value = @ + val] ELSE m[j]]
    ELSE Append(m, [key |-> linkKey, value |-> val])

\* Link bookkeeping of one row.
NetworkLinksRow(st, cfg, row, val) ==
    IF cfg.categoryColumnName # NoCol /\ cfg.sourceColumnName # NoCol
    THEN [st EXCEPT !.networkLinks =
             LinkPush(@, LinkKey(LinkName(Cell(row, cfg.sourceColumnName)),
                                 LinkName(Cell(row, cfg.categoryColumnName))),
                      val)]
    ELSE st

\* dateObj.toISOString().split('T')[0]: the calendar day of a time.  The
\* times of the model are whole days, and a day is named by its number.
DateKey(time) == [day |-> time]

\* new Date(date).getTime() of a date key, in days.
DateKeyTime(dateKey) == dateKey.day

\* timeSeriesMap.get(dateKey) || {amount: 0, count: 0}, updated and set: the
\* map in insertion order as a sequence of [date, amount, count].
TimePush(m, dateKey, val) ==
    IF \E j \in 1..Len(m) : m[j].date = dateKey
    THEN [j \in 1..Len(m) |->
            IF m[j].date = dateKey
            THEN [m[j] EXCEPT !.amount = @ + val, !.count = @ + 1]
            ELSE m[j]]
    ELSE Append(m, [date |-> dateKey, amount |-> val, count |-> 1])

\* Time bookkeeping of one row.
TimeRow(st, cfg, row, val) ==
    LET dateVal == Cell(row, cfg.dateColumnName)
        time == DateOf(dateVal)
    IN  IF cfg.dateColumnName # NoCol /\ Truthy(dateVal) /\ ~time.nan
        THEN [st EXCEPT
                !.minDate = IF TimeBelow(time.n, @) THEN Time(time.n) ELSE @,
                !.maxDate = IF TimeAbove(time.n, @) THEN Time(time.n) ELSE @,
                !.timeSeriesMap = TimePush(@, DateKey(time.n), val),
                !.hasTimeData = TRUE]
        ELSE st

\* valRaw === undefined || valRaw === '' (the null test dropped)
IsEmptyCellNoNull(valRaw) == valRaw.t = "undefined" \/ valRaw = Str(<<>>)

\* valRaw === null || valRaw === undefined || valRaw === ''
IsEmptyCell(valRaw) == valRaw.t \in {"null", "undefined"} \/ valRaw = Str(<<>>)

\* The body of the first data.forEach for the row at position rowIndex.
MainRow(st, cfg, rows, rowIndex) ==
    LET row == rows[rowIndex]
        valRaw == Cell(row, cfg.columnName)
        val == ParseAmount(valRaw)
    IN  IF IsEmptyCell(valRaw)
        THEN [st EXCEPT !.anomalies =
                 Append(@, Anomaly(rowIndex, MissingValue,
                                   Str(<<"N", "U", "L", "L", "/", "E", "M", "P", "T", "Y">>)))]
        ELSE IF val.nan
        THEN [st EXCEPT !.anomalies =
                 Append(@, Anomaly(rowIndex, MissingValue, valRaw))]
        ELSE LET neg == [st EXCEPT
                           !.anomalies =
                               IF val.n < 0
                               THEN Append(@, Anomaly(rowIndex, NegativeAmount, Num(val.n)))
                               ELSE @,
                           !.riskMap =
                               IF val.n < 0 THEN MapSet(@, rowIndex, Abs(val.n)) ELSE @]
                 stats == [neg EXCEPT
                             !.validRows = @ + 1,
                             !.totalAmount = @ + val.n,
                             !.cleanValues = Append(@, val.n)]
                 keyed == DuplicateKeysRow(BenfordRow(stats, cfg, row, val.n),
                                           cfg, row, rowIndex)
             IN  TimeRow(NetworkLinksRow(EntityRow(keyed, cfg, row, val.n),
                                         cfg, row, val.n),
                         cfg, row, val.n)

\* data.forEach of the first pass over the rows from..Len(rows).
MainLoop(st, cfg, rows) ==
    ForEach(LAMBDA s, i : MainRow(s, cfg, rows, i), st, 1, Len(rows))

(***************************************************************************)
(* Pass 2: outlier analysis (IQR method).                                  *)
(***************************************************************************)
\* The stable sort of s by the key Key: the element at position i goes to
\* the position after the elements of smaller key and the earlier elements
\* of equal key.
SortBy(s, Key(_)) ==
    LET place == {<<Cardinality({j \in 1..Len(s) :
                        \/ Key(s[j]) < Key(s[i])
                        \/ (Key(s[j]) = Key(s[i]) /\ j < i)}) + 1, i>> :
                  i \in 1..Len(s)}
    IN  [k \in 1..Len(s) |-> s[(CHOOSE p \in place : p[1] = k)[2]]]

\* cleanValues.sort((a, b) => a - b)
SortAsc(s) == SortBy(s, LAMBDA v : v)

\* sorted[Math.floor(sorted.length * num / 4)] of a 0-based array; undefined
\* (NaN in arithmetic) when the array is empty.
Quartile(sorted, num) ==
    IF sorted = <<>> THEN NaN ELSE Val(sorted[((Len(sorted) * num) \div 4) + 1])

\* q1 - 1.5 * iqr, in halves (twice the bound).
LowerBound(sorted) ==
    LET q1 == Quartile(sorted, 1)
        q3 == Quartile(sorted, 3)
    IN  IF q1.nan \/ q3.nan THEN NaN ELSE Val(2 * q1.n - 3 * (q3.n - q1.n))

\* q3 + 1.5 * iqr, in halves (twice the bound).
UpperBound(sorted) ==
    LET q1 == Quartile(sorted, 1)
        q3 == Quartile(sorted, 3)
    IN  IF q1.nan \/ q3.nan THEN NaN ELSE Val(2 * q3.n + 3 * (q3.n - q1.n))

\* val <= lowerBound || val >= upperBound
IsOutlierInclusive(val, lo, hi) ==
    (~lo.nan /\ 2 * val <= lo.n) \/ (~hi.nan /\ 2 * val >= hi.n)

\* val < lowerBound || val > upperBound, the bounds in halves; a comparison
\* with NaN is false.
IsOutlier(val, lo, hi) ==
    (~lo.nan /\ 2 * val < lo.n) \/ (~hi.nan /\ 2 * val > hi.n)

\* stdDev === 0 with the test left out.
StdDevNotTested(values, total, valid) == FALSE

\* stdDev === 0, for stdDev = Math.sqrt(variance) and variance the sum of
\* (val - mean)^2 over cleanValues divided by validRows, mean being
\* totalAmount / validRows: the sum of squares is 0 iff every value is the
\* mean, valid * val = total.  Without valid rows mean, variance and stdDev
\* are NaN (0 / 0), which is not 0.
StdDevIsZero(values, total, valid) ==
    valid > 0 /\ \A k \in 1..Len(values) : valid * values[k] = total

\* stdDev !== 0 ? (val - mean) / stdDev : 0.  stdDev is a square root and is
\* kept symbolic: the z-score is 0 (zero), NaN (nan: mean and stdDev are NaN
\* without valid rows), or dev / (valid * stdDev) with
\* dev = valid * val - total, that is (val - mean) / stdDev.
ZScore(val, zeroStdDev, total, valid) ==
    IF zeroStdDev
    THEN [zero |-> TRUE, nan |-> FALSE, dev |-> 0, valid |-> valid]
    ELSE [zero |-> FALSE,
          nan |-> valid = 0,
          dev |-> valid * val - total, valid |-> valid]

\* The body of the second data.forEach for the row at position rowIndex.
OutlierRow(st, cfg, rows, rowIndex, lo, hi) ==
    LET val == ParseAmount(Cell(rows[rowIndex], cfg.columnName))
    IN  IF val.nan THEN st
        ELSE LET isOutlier == IsOutlier(val.n, lo, hi)
                 zScore == ZScore(val.n, st.zeroStdDev, totalAmount, validRows)
             IN  [st EXCEPT
                    !.scatterData =
                        Append(@, [id |-> rowIndex, index |-> rowIndex - 1,
                                   amount |-> val.n, isOutlier |-> isOutlier,
                                   zScore |-> zScore]),
                    !.anomalies =
                        IF isOutlier
                        THEN Append(@, Anomaly(rowIndex, StatisticalOutlier, Num(val.n)))
                        ELSE @,
                    !.riskMap =
                        IF isOutlier THEN MapSet(@, rowIndex, Abs(val.n)) ELSE @]

\* data.forEach of the second pass.
OutlierLoop(st, cfg, rows, lo, hi) ==
    ForEach(LAMBDA s, i : OutlierRow(s, cfg, rows, i, lo, hi), st, 1, Len(rows))

(***************************************************************************)
(* Pass 8 and 8.5: duplicate analysis.                                     *)
(***************************************************************************)
\* isNaN(val) ? 0 : Math.abs(val) of the amount of a row
SafeVal(cfg, row) ==
    LET val == ParseAmount(Cell(row, cfg.columnName))
    IN  IF val.nan THEN 0 ELSE Abs(val.n)

\* for (let i = 0; i < indices.length; i++)
AllCopies(indices) == {indices[i] : i \in 1..Len(indices)}

\* for (let i = 1; i < indices.length; i++): the members charged by the
\* exact-duplicate rule.
ExtraCopies(indices) == {indices[i] : i \in 2..Len(indices)}

\* The body of rowStrings.forEach for one group.
ExactGroup(st, cfg, rows, indices) ==
    IF Len(indices) > 1
    THEN LET safeVal == SafeVal(cfg, rows[indices[1]])
             extra == ExtraCopies(indices)
         IN  [st EXCEPT
                !.anomalies =
                    @ \o [k \in 1..Len(indices) |->
                            Anomaly(indices[k], DuplicateRecord,
                                    Str(<<"I", "d", "e", "n", "t", "i", "c", "a", "l">>))],
                !.riskMap =
                    [x \in (DOMAIN @) \cup extra |->
                        IF x \in extra THEN safeVal ELSE @[x]]]
    ELSE st

\* rowStrings.forEach
ExactLoop(st, cfg, rows, groups) ==
    ForEach(LAMBDA s, g : ExactGroup(s, cfg, rows, groups[g].indices),
            st, 1, Len(groups))

\* The test of the exact-duplicate flag left out.
NeverExactDup(anoms, rowIndex) == FALSE

\* anomalies.some(a => a.rowIndex === rowIndex && a.type === 'Duplicate Record')
IsExactDup(anoms, rowIndex) ==
    \E k \in 1..Len(anoms) :
        anoms[k].rowIndex = rowIndex /\ anoms[k].type = DuplicateRecord

\* if (i > 0): the position (1-based) of a member charged by the invoice rule.
InvoiceCharged(i) == i > 1

\* The body of the inner loop of invoiceIdMap.forEach for the member at
\* position i (1-based) of the group of id.
InvoiceMember(st, cfg, rows, id, indices, i) ==
    LET rowIndex == indices[i]
    IN  IF ~IsExactDup(st.anomalies, rowIndex)
        THEN [st EXCEPT
                !.anomalies = Append(@, Anomaly(rowIndex, DuplicateInvoiceID, Str(id))),
                !.riskMap =
                    IF InvoiceCharged(i)
                    THEN MapSet(@, rowIndex, SafeVal(cfg, rows[rowIndex]))
                    ELSE @]
        ELSE st

\* The body of invoiceIdMap.forEach for one group.
InvoiceGroup(st, cfg, rows, id, indices) ==
    IF Len(indices) > 1
    THEN ForEach(LAMBDA s, i : InvoiceMember(s, cfg, rows, id, indices, i),
                 st, 1, Len(indices))
    ELSE st

\* invoiceIdMap.forEach
InvoiceLoop(st, cfg, rows, groups) ==
    ForEach(LAMBDA s, g : InvoiceGroup(s, cfg, rows, groups[g].key, groups[g].indices),
            st, 1, Len(groups))

(***************************************************************************)
(* Monetary risk and forecast.                                             *)
(***************************************************************************)
HasType(anoms, rowIndex, types) ==
    \E k \in 1..Len(anoms) : anoms[k].rowIndex = rowIndex /\ anoms[k].type \in types

\* The anomaly types whose name includes 'Duplicate'.
DuplicateTypes == {DuplicateRecord, DuplicateInvoiceID}

\* The bucket with the duplicate test before the outlier test.
RiskBucketDuplicateFirst(anoms, rowIndex) ==
    IF HasType(anoms, rowIndex, DuplicateTypes) THEN "duplicates"
    ELSE IF HasType(anoms, rowIndex, {StatisticalOutlier}) THEN "outliers"
    ELSE IF HasType(anoms, rowIndex, {NegativeAmount}) THEN "negatives"
    ELSE "none"

\* The bucket of riskBreakdown a row of the risk map is added to.
RiskBucket(anoms, rowIndex) ==
    IF HasType(anoms, rowIndex, {StatisticalOutlier}) THEN "outliers"
    ELSE IF HasType(anoms, rowIndex, DuplicateTypes) THEN "duplicates"
    ELSE IF HasType(anoms, rowIndex, {NegativeAmount}) THEN "negatives"
    ELSE "none"

\* The sum of m over the keys in S.
RECURSIVE SumOver(_, _)
SumOver(m, S) ==
    IF S = {} THEN 0
    ELSE LET k == CHOOSE x \in S : TRUE IN m[k] + SumOver(m, S \ {k})

\* riskMap.forEach: the totals of one bucket.
BucketTotal(m, anoms, bucket) ==
    SumOver(m, {k \in DOMAIN m : RiskBucket(anoms, k) = bucket})

\* minDate < maxDate
DateLess(lo, hi) ==
    CASE lo.lim = "MAX_VALUE" -> FALSE
      [] hi.lim = "MIN_VALUE" -> lo.t <= 0
      [] OTHER -> lo.t < hi.t

\* (maxDate - minDate) / (1000 * 60 * 60 * 24); Number.MIN_VALUE is absorbed
\* by the subtraction.
DayDiff(lo, hi) == IF hi.lim = "MIN_VALUE" THEN 0 - lo.t ELSE hi.t - lo.t

Frac(num, den) == [num |-> num, den |-> den]

\* totalAmount / validRows: 0 / 0, a fraction with the denominator 0, is NaN.
Mean(total, valid) == Frac(total, valid)

\* The annualized forecast, as a fraction.
ForecastLoss(risk, timeData, lo, hi) ==
    IF risk > 0
    THEN IF timeData /\ DateLess(lo, hi)
         THEN LET dayDiff == DayDiff(lo, hi)
              IN  IF dayDiff > 1 THEN Frac(risk * 365, dayDiff) ELSE Frac(risk, 1)
         ELSE Frac(risk * 12, 1)
    ELSE Frac(0, 1)

(***************************************************************************)
(* Benford conformity.                                                     *)
(***************************************************************************)
\* BENFORD_EXPECTED_1ST, in tenths of a percent.
BENFORD_EXPECTED_1ST == <<301, 176, 125, 97, 79, 67, 58, 51, 46>>

\* Math.log10(1 + 1/digit) for digit = 10..99, in millionths (rounded).
BENFORD_EXPECTED_2ND ==
    <<41393, 37789, 34762, 32185, 29963, 28029, 26329, 24824, 23481, 22276,
      21189, 20203, 19305, 18483, 17729, 17033, 16390, 15794, 15240, 14723,
      14240, 13788, 13364, 12965, 12589, 12234, 11899, 11582, 11281, 10995,
      10724, 10465, 10219, 9984, 9760, 9545, 9340, 9143, 8955, 8774,
      8600, 8433, 8273, 8118, 7969, 7825, 7687, 7553, 7424, 7299,
      7179, 7062, 6949, 6839, 6733, 6631, 6531, 6434, 6340, 6249,
      6160, 6074, 5990, 5909, 5830, 5752, 5677, 5604, 5532, 5463,
      5395, 5329, 5264, 5201, 5140, 5080, 5021, 4963, 4907, 4853,
      4799, 4746, 4695, 4645, 4596, 4548, 4501, 4454, 4409, 4365>>

\* digitCounts.map((count, index) => ({digit, count, actual, expected})): the
\* bucket of digit d holds its count and actual = count / validCount * 100
\* (a fraction), 0 when validCount is 0.
ChartData(counts, validCount) ==
    [d \in DOMAIN counts |->
        [digit |-> d, count |-> counts[d],
         actual |-> IF validCount > 0
                    THEN [num |-> 100 * counts[d], den |-> validCount]
                    ELSE [num |-> 0, den |-> 1]]]

\* Sum of |actual/100 - expected/100| over the buckets lo..hi, in units of
\* 1 / (scale * den), where actual = count / den * 100 for den > 0 and
\* expected(d) is given in units of 1 / scale.
RECURSIVE SumDeviations(_, _, _, _, _, _)
SumDeviations(counts, den, expected, scale, lo, hi) ==
    IF lo > hi THEN 0
    ELSE Abs(scale * counts[lo] - expected[lo] * den)
         + SumDeviations(counts, den, expected, scale, lo + 1, hi)

\* The conformity class of mad = sum / (scale * den * buckets) against the
\* thresholds close, acceptable and marginal, given in units of
\* 1 / (scale * buckets) ... times den.
Conformity(sum, den, close, acceptable, marginal) ==
    IF sum <= close * den THEN "Close"
    ELSE IF sum <= acceptable * den THEN "Acceptable"
    ELSE IF sum <= marginal * den THEN "Marginally Acceptable"
    ELSE "Nonconformity"

\* 1-digit conformity: mad <= 0.006, 0.012, 0.015 with mad = sum / 9.
Conformity1(counts, validCount) ==
    LET den == IF validCount > 0 THEN validCount ELSE 1
        sum == IF validCount > 0
               THEN SumDeviations(counts, den, BENFORD_EXPECTED_1ST, 1000, 1, 9)
               ELSE SumDeviations([d \in 1..9 |-> 0], den, BENFORD_EXPECTED_1ST, 1000, 1, 9)
    IN  Conformity(sum, den, 54, 108, 135)

\* 2-digit conformity: mad <= 0.0012, 0.0018, 0.0022 with mad = sum / 90.
Conformity2(counts, validCount) ==
    LET den == IF validCount > 0 THEN validCount ELSE 1
        expected == [d \in 10..99 |-> BENFORD_EXPECTED_2ND[d - 9]]
        sum == IF validCount > 0
               THEN SumDeviations(counts, den, expected, 1000000, 10, 99)
               ELSE SumDeviations([d \in 10..99 |-> 0], den, expected, 1000000, 10, 99)
    IN  Conformity(sum, den, 108000, 162000, 198000)

(***************************************************************************)
(* Risk score.                                                             *)
(***************************************************************************)
\* anomalies.filter(a => types.includes(a.type)).length
CountType(anoms, types) ==
    Cardinality({k \in 1..Len(anoms) : anoms[k].type \in types})

\* Factor 1: Benford conformity.
BenfordFactor(c1, c2) ==
    (IF c1 = "Nonconformity" THEN 25
     ELSE IF c1 = "Marginally Acceptable" THEN 15 ELSE 0)
    + (IF c2 = "Nonconformity" THEN 10 ELSE 0)

\* Factor 2 with >= 0.05 and >= 0.01.
OutlierFactorInclusive(outlierCount, valid) ==
    IF valid > 0 /\ 100 * outlierCount >= 5 * valid THEN 25
    ELSE IF valid > 0 /\ 100 * outlierCount >= valid THEN 15
    ELSE IF valid > 0 /\ outlierCount > 0 THEN 5
    ELSE 0

\* Factor 2: outlierCount / validRows > 0.05, > 0.01, > 0.
OutlierFactor(outlierCount, valid) ==
    IF valid > 0 /\ 100 * outlierCount > 5 * valid THEN 25
    ELSE IF valid > 0 /\ 100 * outlierCount > valid THEN 15
    ELSE IF valid > 0 /\ outlierCount > 0 THEN 5
    ELSE 0

\* The factor as the duplicate rate in percent, at most 20.
DuplicateFactorByRate(duplicateCount, valid) ==
    IF valid > 0
    THEN (IF (100 * duplicateCount) \div valid > 20 THEN 20
          ELSE (100 * duplicateCount) \div valid)
    ELSE 0

\* Factor 3: duplicateCount / validRows > 0.05, > 0.
DuplicateFactor(duplicateCount, valid) ==
    IF valid > 0 /\ 100 * duplicateCount > 5 * valid THEN 20
    ELSE IF valid > 0 /\ duplicateCount > 0 THEN 10
    ELSE 0

\* cleanValues.filter(v => v % 1000 === 0 && v !== 0).length
RoundNumbers(values) ==
    Cardinality({k \in 1..Len(values) : Abs(values[k]) % 1000 = 0 /\ values[k] # 0})

\* Factor 4: roundNumbers / validRows > 0.1, > 0.05.
RoundFactor(roundNumbers, valid) ==
    IF valid > 0 /\ 10 * roundNumbers > valid THEN 20
    ELSE IF valid > 0 /\ 100 * roundNumbers > 5 * valid THEN 10
    ELSE 0

Min(a, b) == IF a < b THEN a ELSE b

\* riskScore = Math.min(riskScore, 100)
RiskScore(c1, c2, anoms, values, valid) ==
    Min(BenfordFactor(c1, c2)
        + OutlierFactor(CountType(anoms, {StatisticalOutlier}), valid)
        + DuplicateFactor(CountType(anoms, DuplicateTypes), valid)
        + RoundFactor(RoundNumbers(values), valid),
        100)

\* The levels with > in place of >=.
RiskLevelExclusive(score) ==
    IF score > 75 THEN "Critical"
    ELSE IF score > 50 THEN "High"
    ELSE IF score > 25 THEN "Medium"
    ELSE "Low"

RiskLevel(score) ==
    IF score >= 75 THEN "Critical"
    ELSE IF score >= 50 THEN "High"
    ELSE IF score >= 25 THEN "Medium"
    ELSE "Low"

(***************************************************************************)
(* Result.                                                                 *)
(***************************************************************************)
\* typeof a.value === 'number' ? a.value : 0 (the sign kept)
AnomalyValue(a) == IF a.value.t = "number" THEN a.value.n ELSE 0

\* typeof a.value === 'number' ? Math.abs(a.value) : 0
AnomalyMagnitude(a) == IF a.value.t = "number" THEN Abs(a.value.n) ELSE 0

\* [...anomalies].sort((a, b) => valB - valA), a stable sort.
SortByMagnitude(s) == SortBy(s, LAMBDA a : 0 - AnomalyMagnitude(a))

\* s.slice(0, n)
Slice(s, n) == SubSeq(s, 1, Min(n, Len(s)))

\* sortedAnomalies.slice(0, 5)
TopAnomalies(anoms) == Slice(SortByMagnitude(anoms), 5)

\* The anomalies in the order the passes produced them.
InPassOrder(s) == s

\* anomalies.sort((a, b) => a.rowIndex - b.rowIndex), a stable sort.
SortByRow(s) == SortBy(s, LAMBDA a : a.rowIndex)

(***************************************************************************)
(* Pass 5: entity data and Pareto ranking.                                 *)
(***************************************************************************)
\* avg > upperBound || (stats.count > validRows * 0.1 && validRows > 50), with
\* avg = total / count and hi the upper bound in halves.
EntityIsOutlier(stats, hi, valid) ==
    \/ ~hi.nan /\ 2 * stats.total > hi.n * stats.count
    \/ 10 * stats.count > valid /\ valid > 50

\* Array.from(entityMap.entries()).forEach(...): one EntityDataPoint per
\* entity, in insertion order.
EntityData(m, hi, valid) ==
    [j \in 1..Len(m) |->
        [id |-> m[j].id, count |-> m[j].count, totalAmount |-> m[j].total,
         averageAmount |-> Frac(m[j].total, m[j].count),
         isOutlier |-> EntityIsOutlier(m[j], hi, valid)]]

\* The entities in the order of the entity map.
EntitiesInMapOrder(entities) == entities

\* [...entityData].sort((a, b) => b.totalAmount - a.totalAmount)
SortEntities(entities) == SortBy(entities, LAMBDA e : 0 - e.totalAmount)

\* cumulative after the first k sorted entities.
RECURSIVE Cumulative(_, _)
Cumulative(sorted, k) ==
    IF k = 0 THEN 0 ELSE Cumulative(sorted, k - 1) + sorted[k].totalAmount

\* (cumulative / totalAmount) * 100 as the fraction 100 * cumulative over
\* totalAmount: a denominator 0 stands for the NaN (0 / 0) or the infinity
\* (x / 0) the division gives.
CumulativePercentage(cumulative, total) == Frac(100 * cumulative, total)

\* sortedEntities.map(...) and the slice(0, 30).
ParetoData(entities, total) ==
    LET sorted == SortEntities(entities)
    IN  Slice([k \in 1..Len(sorted) |->
                  [name |-> sorted[k].id, value |-> sorted[k].totalAmount,
                   cumulativePercentage |->
                       CumulativePercentage(Cumulative(sorted, k), total)]],
              30)

(***************************************************************************)
(* Pass 4 and 6: time series formatting and the network graph.             *)
(***************************************************************************)
\* Array.from(timeSeriesMap.entries()).map(...).sort((a, b) =>
\*     new Date(a.date).getTime() - new Date(b.date).getTime())
TimeSeriesData(m) == SortBy(m, LAMBDA e : DateKeyTime(e.date))

\* The part of s before the first separator (s without separator).
RECURSIVE Before(_, _)
Before(s, sep) ==
    IF s = <<>> \/ Head(s) = sep THEN <<>>
    ELSE <<Head(s)>> \o Before(Tail(s), sep)

\* The part of s after the first separator (nothing without separator).
RECURSIVE After(_, _)
After(s, sep) ==
    IF s = <<>> THEN <<>>
    ELSE IF Head(s) = sep THEN Tail(s)
    ELSE After(Tail(s), sep)

\* const [s, t] = key.split('|'): the first and the second part.
SplitSource(key) == Before(key, "|")
SplitTarget(key) == Before(After(key, "|"), "|")

\* Array.from(networkLinks.entries()).map(...).sort((a, b) =>
\*     b.value - a.value)
LinksArr(m) ==
    SortBy([j \in 1..Len(m) |->
               [source |-> SplitSource(m[j].key), target |-> SplitTarget(m[j].key),
                value |-> m[j].value]],
           LAMBDA l : 0 - l.value)

\* linksArr.slice(0, 50)
TopLinks(linksArr) == SubSeq(linksArr, 1, Min(50, Len(linksArr)))

\* The elements of a Set built from the sequence s, in insertion order.
RECURSIVE SetOf(_)
SetOf(s) ==
    IF s = <<>> THEN <<>>
    ELSE LET rest == SetOf(SubSeq(s, 1, Len(s) - 1))
             last == s[Len(s)]
         IN  IF \E j \in 1..Len(rest) : rest[j] = last THEN rest
             ELSE Append(rest, last)

\* The sum of the values of the first k links that have the end id at the
\* given role.
RECURSIVE LinkSum(_, _, _, _)
LinkSum(links, k, type, id) ==
    IF k = 0 THEN 0
    ELSE LinkSum(links, k - 1, type, id)
         + (IF links[k][type] = id THEN links[k].value ELSE 0)

\* graphNodes after topLinks.forEach: the source nodes, then the target
\* nodes, each with the values of the links found for it.
GraphNodes(topLinks) ==
    LET uniqueSources == SetOf([k \in 1..Len(topLinks) |-> topLinks[k].source])
        uniqueTargets == SetOf([k \in 1..Len(topLinks) |-> topLinks[k].target])
    IN  [j \in 1..Len(uniqueSources) |->
            [id |-> uniqueSources[j], type |-> "source",
             value |-> LinkSum(topLinks, Len(topLinks), "source", uniqueSources[j])]]
        \o
        [j \in 1..Len(uniqueTargets) |->
            [id |-> uniqueTargets[j], type |-> "target",
             value |-> LinkSum(topLinks, Len(topLinks), "target", uniqueTargets[j])]]

\* graphData of the result.
GraphData(cfg, m) ==
    IF cfg.categoryColumnName # NoCol /\ cfg.sourceColumnName # NoCol
    THEN [nodes |-> GraphNodes(TopLinks(LinksArr(m))),
          links |-> TopLinks(LinksArr(m))]
    ELSE [nodes |-> <<>>, links |-> <<>>]

(***************************************************************************)
(* performAnalysis, pass by pass.                                          *)
(***************************************************************************)
MainPass ==
    /\ pc = "main"
    /\ LET st == MainLoop(MainStart, config, data)
       IN  /\ validRows' = st.validRows
           /\ totalAmount' = st.totalAmount
           /\ cleanValues' = st.cleanValues
           /\ anomalies' = st.anomalies
           /\ rowStrings' = st.rowStrings
           /\ invoiceIdMap' = st.invoiceIdMap
           /\ riskMap' = st.riskMap
           /\ digitCounts' = st.digitCounts
           /\ digitCounts2' = st.digitCounts2
           /\ benfordValidCount' = st.benfordValidCount
           /\ benford2ValidCount' = st.benford2ValidCount
           /\ hasTimeData' = st.hasTimeData
           /\ minDate' = st.minDate
           /\ maxDate' = st.maxDate
           /\ entityMap' = st.entityMap
           /\ timeSeriesMap' = st.timeSeriesMap
           /\ networkLinks' = st.networkLinks
    /\ pc' = "outliers"
    /\ UNCHANGED <<appVars, data, config, paretoData, entityData, topAnomalies,
                   chartData2Digit, chartData, scatterData, lowerBound,
                   upperBound, totalAtRisk, riskBreakdown, forecastLoss,
                   conformity, conformity2Digit, riskScore, riskLevel,
                   timeSeriesData, graphData>>

OutlierPass ==
    /\ pc = "outliers"
    /\ LET sorted == SortAsc(cleanValues)
           lo == LowerBound(sorted)
           hi == UpperBound(sorted)
           st == OutlierLoop([scatterData |-> scatterData, anomalies |-> anomalies,
                              riskMap |-> riskMap,
                              zeroStdDev |-> StdDevIsZero(cleanValues, totalAmount,
                                                          validRows)],
                             config, data, lo, hi)
       IN  /\ cleanValues' = sorted
           /\ lowerBound' = lo
           /\ upperBound' = hi
           /\ scatterData' = st.scatterData
           /\ anomalies' = st.anomalies
           /\ riskMap' = st.riskMap
    /\ pc' = "entities"
    /\ UNCHANGED <<appVars, data, config, paretoData, entityData, entityMap,
                   topAnomalies, chartData2Digit, chartData, validRows,
                   totalAmount, rowStrings, invoiceIdMap, digitCounts,
                   digitCounts2, benfordValidCount, benford2ValidCount,
                   hasTimeData, minDate, maxDate, totalAtRisk, riskBreakdown,
                   forecastLoss, conformity, conformity2Digit, riskScore,
                   riskLevel,
                   flowVars>>

\* Time series formatting, entity data with the Pareto ranking, and the
\* network graph.
Entities ==
    /\ pc = "entities"
    /\ IF config.categoryColumnName # NoCol
       THEN /\ entityData' = EntityData(entityMap, upperBound, validRows)
            /\ paretoData' = ParetoData(EntityData(entityMap, upperBound, validRows),
                                        totalAmount)
       ELSE /\ entityData' = <<>>
            /\ paretoData' = <<>>
    /\ timeSeriesData' = TimeSeriesData(timeSeriesMap)
    /\ graphData' = GraphData(config, networkLinks)
    /\ pc' = "duplicates"
    /\ UNCHANGED <<appVars, data, config, entityMap, topAnomalies,
                   chartData2Digit, chartData, validRows, totalAmount,
                   cleanValues, anomalies, rowStrings, invoiceIdMap,
                   scatterData, riskMap, digitCounts, digitCounts2,
                   benfordValidCount, benford2ValidCount, hasTimeData, minDate,
                   maxDate, lowerBound, upperBound, totalAtRisk, riskBreakdown,
                   forecastLoss, conformity, conformity2Digit, riskScore,
                   riskLevel,
                   timeSeriesMap, networkLinks>>

DuplicateRows ==
    /\ pc = "duplicates"
    /\ LET st == ExactLoop([anomalies |-> anomalies, riskMap |-> riskMap],
                           config, data, rowStrings)
       IN  /\ anomalies' = st.anomalies
           /\ riskMap' = st.riskMap
    /\ pc' = "invoices"
    /\ UNCHANGED <<appVars, data, config, paretoData, entityData, entityMap,
                   topAnomalies, chartData2Digit, chartData, validRows,
                   totalAmount, cleanValues, rowStrings, invoiceIdMap,
                   scatterData, digitCounts, digitCounts2, benfordValidCount,
                   benford2ValidCount, hasTimeData, minDate, maxDate,
                   lowerBound, upperBound, totalAtRisk, riskBreakdown,
                   forecastLoss, conformity, conformity2Digit, riskScore,
                   riskLevel,
                   flowVars>>

DuplicateInvoices ==
    /\ pc = "invoices"
    /\ LET st == InvoiceLoop([anomalies |-> anomalies, riskMap |-> riskMap],
                             config, data, invoiceIdMap)
       IN  /\ anomalies' = st.anomalies
           /\ riskMap' = st.riskMap
    /\ pc' = "risk"
    /\ UNCHANGED <<appVars, data, config, paretoData, entityData, entityMap,
                   topAnomalies, chartData2Digit, chartData, validRows,
                   totalAmount, cleanValues, rowStrings, invoiceIdMap,
                   scatterData, digitCounts, digitCounts2, benfordValidCount,
                   benford2ValidCount, hasTimeData, minDate, maxDate,
                   lowerBound, upperBound, totalAtRisk, riskBreakdown,
                   forecastLoss, conformity, conformity2Digit, riskScore,
                   riskLevel,
                   flowVars>>

RiskTotals ==
    /\ pc = "risk"
    /\ totalAtRisk' = SumOver(riskMap, DOMAIN riskMap)
    /\ riskBreakdown' = [outliers |-> BucketTotal(riskMap, anomalies, "outliers"),
                         duplicates |-> BucketTotal(riskMap, anomalies, "duplicates"),
                         negatives |-> BucketTotal(riskMap, anomalies, "negatives")]
    /\ pc' = "forecast"
    /\ UNCHANGED <<appVars, data, config, paretoData, entityData, entityMap,
                   topAnomalies, chartData2Digit, chartData, validRows,
                   totalAmount, cleanValues, anomalies, rowStrings,
                   invoiceIdMap, scatterData, riskMap, digitCounts,
                   digitCounts2, benfordValidCount, benford2ValidCount,
                   hasTimeData, minDate, maxDate, lowerBound, upperBound,
                   forecastLoss, conformity, conformity2Digit, riskScore,
                   riskLevel,
                   flowVars>>

Forecast ==
    /\ pc = "forecast"
    /\ forecastLoss' = ForecastLoss(totalAtRisk, hasTimeData, minDate, maxDate)
    /\ pc' = "benford"
    /\ UNCHANGED <<appVars, data, config, paretoData, entityData, entityMap,
                   topAnomalies, chartData2Digit, chartData, validRows,
                   totalAmount, cleanValues, anomalies, rowStrings,
                   invoiceIdMap, scatterData, riskMap, digitCounts,
                   digitCounts2, benfordValidCount, benford2ValidCount,
                   hasTimeData, minDate, maxDate, lowerBound, upperBound,
                   totalAtRisk, riskBreakdown, conformity, conformity2Digit,
                   riskScore, riskLevel,
                   flowVars>>

Benford ==
    /\ pc = "benford"
    /\ chartData' = ChartData(digitCounts, benfordValidCount)
    /\ conformity' = Conformity1(digitCounts, benfordValidCount)
    /\ chartData2Digit' = ChartData(digitCounts2, benford2ValidCount)
    /\ conformity2Digit' = Conformity2(digitCounts2, benford2ValidCount)
    /\ pc' = "score"
    /\ UNCHANGED <<appVars, data, config, paretoData, entityData, entityMap,
                   topAnomalies, validRows, totalAmount, cleanValues,
                   anomalies, rowStrings, invoiceIdMap, scatterData, riskMap,
                   digitCounts, digitCounts2, benfordValidCount,
                   benford2ValidCount, hasTimeData, minDate, maxDate,
                   lowerBound, upperBound, totalAtRisk, riskBreakdown,
                   forecastLoss, riskScore, riskLevel,
                   flowVars>>

Score ==
    /\ pc = "score"
    /\ LET score == RiskScore(conformity, conformity2Digit, anomalies,
                              cleanValues, validRows)
       IN  /\ riskScore' = score
           /\ riskLevel' = RiskLevel(score)
    /\ pc' = "return"
    /\ UNCHANGED <<appVars, data, config, paretoData, entityData, entityMap,
                   topAnomalies, chartData2Digit, chartData, validRows,
                   totalAmount, cleanValues, anomalies, rowStrings,
                   invoiceIdMap, scatterData, riskMap, digitCounts,
                   digitCounts2, benfordValidCount, benford2ValidCount,
                   hasTimeData, minDate, maxDate, lowerBound, upperBound,
                   totalAtRisk, riskBreakdown, forecastLoss, conformity,
                   conformity2Digit, flowVars>>

Return ==
    /\ pc = "return"
    /\ topAnomalies' = TopAnomalies(anomalies)
    /\ anomalies' = SortByRow(anomalies)
    /\ pc' = "done"
    /\ UNCHANGED <<appVars, data, config, paretoData, entityData, entityMap,
                   chartData2Digit, chartData, validRows, totalAmount,
                   cleanValues, rowStrings, invoiceIdMap, scatterData, riskMap,
                   digitCounts, digitCounts2, benfordValidCount,
                   benford2ValidCount, hasTimeData, minDate, maxDate,
                   lowerBound, upperBound, totalAtRisk, riskBreakdown,
                   forecastLoss, conformity, conformity2Digit, riskScore,
                   riskLevel,
                   flowVars>>

Next ==
    \/ MainPass
    \/ OutlierPass
    \/ Entities
    \/ DuplicateRows
    \/ DuplicateInvoices
    \/ RiskTotals
    \/ Forecast
    \/ Benford
    \/ Score
    \/ Return

(***************************************************************************)
(* Column classification and auto-detection.                               *)
(***************************************************************************)
\* The characters of a header.
Spelling(h) ==
    CASE h = "amt" -> <<"a", "m", "t">>
      [] h = "inv" -> <<"i", "n", "v">>
      [] h = "date" -> <<"d", "a", "t", "e">>
      [] h = "cat" -> <<"c", "a", "t">>
      [] h = "Qty" -> <<"Q", "t", "y">>
      [] h = "Total" -> <<"T", "o", "t", "a", "l">>
      [] h = "Cost" -> <<"C", "o", "s", "t">>
      [] h = "Paid" -> <<"P", "a", "i", "d">>
      [] h = "Type" -> <<"T", "y", "p", "e">>
      [] h = "Date" -> <<"D", "a", "t", "e">>

UpperCaseLetters ==
    <<"A", "B", "C", "D", "E", "F", "G", "H", "I", "J", "K", "L", "M",
      "N", "O", "P", "Q", "R", "S", "T", "U", "V", "W", "X", "Y", "Z">>

LowerCaseLetters ==
    <<"a", "b", "c", "d", "e", "f", "g", "h", "i", "j", "k", "l", "m",
      "n", "o", "p", "q", "r", "s", "t", "u", "v", "w", "x", "y", "z">>

\* The lower-case form of a character.
ToLowerCase(c) ==
    IF \E k \in 1..26 : UpperCaseLetters[k] = c
    THEN LowerCaseLetters[CHOOSE k \in 1..26 : UpperCaseLetters[k] = c]
    ELSE c

\* The word w occurs in s.
Includes(s, w) ==
    \E i \in 0..(Len(s) - Len(w)) : SubSeq(s, i + 1, i + Len(w)) = w

\* regex.test(h) for a case-insensitive alternation of words.
Test(regex, h) ==
    LET s == [k \in 1..Len(Spelling(h)) |-> ToLowerCase(Spelling(h)[k])]
    IN  \E w \in regex : Includes(s, w)

\* /(amount|total|value|price|cost|balance|debit|credit)/i
AmountPattern ==
    {<<"a", "m", "o", "u", "n", "t">>,
     <<"t", "o", "t", "a", "l">>,
     <<"v", "a", "l", "u", "e">>,
     <<"p", "r", "i", "c", "e">>,
     <<"c", "o", "s", "t">>,
     <<"b", "a", "l", "a", "n", "c", "e">>,
     <<"d", "e", "b", "i", "t">>,
     <<"c", "r", "e", "d", "i", "t">>}

\* /(date|time|timestamp|created|posted)/i
DatePattern ==
    {<<"d", "a", "t", "e">>,
     <<"t", "i", "m", "e">>,
     <<"t", "i", "m", "e", "s", "t", "a", "m", "p">>,
     <<"c", "r", "e", "a", "t", "e", "d">>,
     <<"p", "o", "s", "t", "e", "d">>}

\* /(vendor|merchant|payee|description|category|type|party)/i
CategoryPattern ==
    {<<"v", "e", "n", "d", "o", "r">>,
     <<"m", "e", "r", "c", "h", "a", "n", "t">>,
     <<"p", "a", "y", "e", "e">>,
     <<"d", "e", "s", "c", "r", "i", "p", "t", "i", "o", "n">>,
     <<"c", "a", "t", "e", "g", "o", "r", "y">>,
     <<"t", "y", "p", "e">>,
     <<"p", "a", "r", "t", "y">>}

\* /(employee|approver|user|creator|source|person|agent)/i
SourcePattern ==
    {<<"e", "m", "p", "l", "o", "y", "e", "e">>,
     <<"a", "p", "p", "r", "o", "v", "e", "r">>,
     <<"u", "s", "e", "r">>,
     <<"c", "r", "e", "a", "t", "o", "r">>,
     <<"s", "o", "u", "r", "c", "e">>,
     <<"p", "e", "r", "s", "o", "n">>,
     <<"a", "g", "e", "n", "t">>}

\* /(invoice|ref|id|document|trans|number|ticket)/i
InvoicePattern ==
    {<<"i", "n", "v", "o", "i", "c", "e">>,
     <<"r", "e", "f">>,
     <<"i", "d">>,
     <<"d", "o", "c", "u", "m", "e", "n", "t">>,
     <<"t", "r", "a", "n", "s">>,
     <<"n", "u", "m", "b", "e", "r">>,
     <<"t", "i", "c", "k", "e", "t">>}

\* Object.keys(row): the columns the row has, in column order.
Keys(row) == SelectSeq(Headers, LAMBDA h : h \in DOMAIN row)

\* typeof val === 'number' || (typeof val === 'string' &&
\*     !isNaN(parseFloat(val.replace(/,/g, ''))))
IsNumericValue(val) ==
    \/ val.t = "number"
    \/ val.t = "string" /\ ~ParseFloat(StripCommas(val.s)).nan

\* val && String(val).match(/[1-9]/)
HasDigits(val) ==
    /\ Truthy(val)
    /\ \E k \in 1..Len(JSString(val)) : JSString(val)[k] \in Digits \ {"0"}

\* The date test of getDateColumns: a serial number strictly between 30000
\* and 60000, or a string that Date.parse reads.
IsDateValue(val) ==
    \/ val.t = "number" /\ val.n > 30000 /\ val.n < 60000
    \/ val.t = "string" /\ ~DateParse(val.s).nan

\* typeof row[header] === 'string' || typeof row[header] === 'number'
IsTextOrNumber(val) == val.t \in {"string", "number"}

getNumericColumns(rows) ==
    IF rows = <<>> THEN <<>>
    ELSE LET sample == Slice(rows, 10)
             numericCount(header) ==
                 Cardinality({k \in 1..Len(sample) : IsNumericValue(Cell(sample[k], header))})
         IN  SelectSeq(Keys(rows[1]),
                       LAMBDA header : 2 * numericCount(header) > Len(sample))

getIdColumns(rows) ==
    IF rows = <<>> THEN <<>>
    ELSE LET sample == Slice(rows, 10)
             hasDigitsCount(header) ==
                 Cardinality({k \in 1..Len(sample) : HasDigits(Cell(sample[k], header))})
         IN  SelectSeq(Keys(rows[1]),
                       LAMBDA header : 2 * hasDigitsCount(header) > Len(sample))

getDateColumns(rows) ==
    IF rows = <<>> THEN <<>>
    ELSE LET sample == Slice(rows, 10)
             dateCount(header) ==
                 Cardinality({k \in 1..Len(sample) : IsDateValue(Cell(sample[k], header))})
         IN  SelectSeq(Keys(rows[1]),
                       LAMBDA header : 2 * dateCount(header) > Len(sample))

\* values.size < sample.length * 0.9 is 10 * size < 9 * length.
getCategoryColumns(rows) ==
    IF rows = <<>> THEN <<>>
    ELSE LET sample == Slice(rows, 50)
             present(header) ==
                 {k \in 1..Len(sample) : IsTextOrNumber(Cell(sample[k], header))}
             values(header) == {Cell(sample[k], header) : k \in present(header)}
             validStrings(header) == Cardinality(present(header))
         IN  SelectSeq(Keys(rows[1]),
                       LAMBDA header :
                           /\ validStrings(header) > 0
                           /\ 10 * Cardinality(values(header)) < 9 * Len(sample))

\* candidates.find(h => regex.test(h)); NoCol stands for undefined.
findCol(regex, candidates) ==
    LET found == SelectSeq(candidates, LAMBDA h : Test(regex, h))
    IN  IF found = <<>> THEN NoCol ELSE found[1]

\* The first column, in place of the last one.
FirstColumn(cols) == cols[1]

\* numericCols[numericCols.length - 1]
LastColumn(cols) == cols[Len(cols)]

\* null in place of an AnalysisConfig.
NoConfig == [none |-> TRUE]

detectBestColumns(rows) ==
    IF rows = <<>> THEN NoConfig
    ELSE
    LET numericCols == getNumericColumns(rows)
    IN  IF numericCols = <<>> THEN NoConfig
        ELSE
        LET foundAmount == findCol(AmountPattern, numericCols)
            amountCol == IF foundAmount = NoCol THEN LastColumn(numericCols)
                         ELSE foundAmount
            dateCols == getDateColumns(rows)
            foundDate == findCol(DatePattern, dateCols)
            dateCol == IF foundDate = NoCol /\ dateCols # <<>> THEN dateCols[1]
                       ELSE foundDate
            catCols == getCategoryColumns(rows)
            foundCat == findCol(CategoryPattern, catCols)
            safeCats == SelectSeq(catCols, LAMBDA c : c # amountCol /\ c # dateCol)
            catCol == IF foundCat = NoCol /\ catCols # <<>> /\ safeCats # <<>>
                      THEN safeCats[1]
                      ELSE foundCat
            foundSrc == findCol(SourcePattern, catCols)
            srcCol == IF foundSrc = catCol THEN NoCol ELSE foundSrc
            idCols == getIdColumns(rows)
            foundInv == findCol(InvoicePattern, idCols)
            safeIds == SelectSeq(idCols, LAMBDA c : c # amountCol /\ c # dateCol)
            invCol == IF foundInv = NoCol /\ idCols # <<>> /\ safeIds # <<>>
                      THEN safeIds[1]
                      ELSE foundInv
        IN  [amountColumn |-> amountCol, dateColumn |-> dateCol,
             categoryColumn |-> catCol, sourceColumn |-> srcCol,
             invoiceColumn |-> invCol]

\* One call of detectBestColumns on the loaded rows.
Detect ==
    /\ pc = "detect"
    /\ bestConfig' = detectBestColumns(data)
    /\ pc' = "detected"
    /\ UNCHANGED <<appState, numericColumns, dateColumns, categoryColumns,
                   idColumns, activeConfig, data, config, paretoData,
                   entityData, entityMap, topAnomalies, chartData2Digit,
                   chartData, validRows, totalAmount, cleanValues, anomalies,
                   rowStrings, invoiceIdMap, scatterData, riskMap, digitCounts,
                   digitCounts2, benfordValidCount, benford2ValidCount,
                   hasTimeData, minDate, maxDate, lowerBound, upperBound,
                   totalAtRisk, riskBreakdown, forecastLoss, conformity,
                   conformity2Digit, riskScore, riskLevel,
                   flowVars>>

NextDetect == Detect

(***************************************************************************)
(* The App component (src/App.tsx).                                        *)
(***************************************************************************)
\* No analysis result: the locals of performAnalysis at its entry, and
\* analysisResult = null.
NoResult ==
    /\ paretoData = <<>>
    /\ entityData = <<>>
    /\ entityMap = <<>>
    /\ topAnomalies = <<>>
    /\ chartData2Digit = ChartData([d \in 10..99 |-> 0], 0)
    /\ chartData = ChartData([d \in 1..9 |-> 0], 0)
    /\ validRows = 0
    /\ totalAmount = 0
    /\ cleanValues = <<>>
    /\ anomalies = <<>>
    /\ rowStrings = <<>>
    /\ invoiceIdMap = <<>>
    /\ scatterData = <<>>
    /\ riskMap = <<>>
    /\ digitCounts = [d \in 1..9 |-> 0]
    /\ digitCounts2 = [d \in 10..99 |-> 0]
    /\ benfordValidCount = 0
    /\ benford2ValidCount = 0
    /\ hasTimeData = FALSE
    /\ minDate = MAX_VALUE
    /\ maxDate = MIN_VALUE
    /\ lowerBound = NaN
    /\ upperBound = NaN
    /\ totalAtRisk = 0
    /\ riskBreakdown = [outliers |-> 0, duplicates |-> 0, negatives |-> 0]
    /\ forecastLoss = Frac(0, 1)
    /\ conformity = "Nonconformity"
    /\ conformity2Digit = "Nonconformity"
    /\ riskScore = 0
    /\ riskLevel = "Low"
    /\ timeSeriesMap = <<>>
    /\ networkLinks = <<>>
    /\ timeSeriesData = <<>>
    /\ graphData = [nodes |-> <<>>, links |-> <<>>]

\* The same for the next state.
ClearResult ==
    /\ paretoData' = <<>>
    /\ entityData' = <<>>
    /\ entityMap' = <<>>
    /\ topAnomalies' = <<>>
    /\ chartData2Digit' = ChartData([d \in 10..99 |-> 0], 0)
    /\ chartData' = ChartData([d \in 1..9 |-> 0], 0)
    /\ validRows' = 0
    /\ totalAmount' = 0
    /\ cleanValues' = <<>>
    /\ anomalies' = <<>>
    /\ rowStrings' = <<>>
    /\ invoiceIdMap' = <<>>
    /\ scatterData' = <<>>
    /\ riskMap' = <<>>
    /\ digitCounts' = [d \in 1..9 |-> 0]
    /\ digitCounts2' = [d \in 10..99 |-> 0]
    /\ benfordValidCount' = 0
    /\ benford2ValidCount' = 0
    /\ hasTimeData' = FALSE
    /\ minDate' = MAX_VALUE
    /\ maxDate' = MIN_VALUE
    /\ lowerBound' = NaN
    /\ upperBound' = NaN
    /\ totalAtRisk' = 0
    /\ riskBreakdown' = [outliers |-> 0, duplicates |-> 0, negatives |-> 0]
    /\ forecastLoss' = Frac(0, 1)
    /\ conformity' = "Nonconformity"
    /\ conformity2Digit' = "Nonconformity"
    /\ riskScore' = 0
    /\ riskLevel' = "Low"
    /\ timeSeriesMap' = <<>>
    /\ networkLinks' = <<>>
    /\ timeSeriesData' = <<>>
    /\ graphData' = [nodes |-> <<>>, links |-> <<>>]

\* The arguments of performAnalysis for a configuration.
Arguments(cfg) ==
    [columnName |-> cfg.amountColumn, dateColumnName |-> cfg.dateColumn,
     invoiceColumnName |-> cfg.invoiceColumn,
     categoryColumnName |-> cfg.categoryColumn,
     sourceColumnName |-> cfg.sourceColumn]

\* No call of performAnalysis: no arguments.
NoArguments ==
    [columnName |-> NoCol, dateColumnName |-> NoCol, invoiceColumnName |-> NoCol,
     categoryColumnName |-> NoCol, sourceColumnName |-> NoCol]

\* onDataLoaded of the FileUpload shown in the UPLOAD state.  FileUpload
\* reports an empty file itself and does not call the handler.  The timer
\* of the first branch is pending at pc = "timer".
HandleDataLoaded(loadedData) ==
    /\ appState = "UPLOAD"
    /\ loadedData # <<>>
    /\ data' = loadedData
    /\ LET numCols == getNumericColumns(loadedData)
           best == detectBestColumns(loadedData)
       IN  /\ numericColumns' = numCols
           /\ dateColumns' = getDateColumns(loadedData)
           /\ categoryColumns' = getCategoryColumns(loadedData)
           /\ idColumns' = getIdColumns(loadedData)
           /\ IF best # NoConfig /\ best.amountColumn # NoCol
              THEN /\ activeConfig' = best
                   /\ appState' = "ANALYZING"
                   /\ pc' = "timer"
              ELSE IF numCols # <<>>
              THEN /\ appState' = "SELECT_COLUMN"
                   /\ UNCHANGED <<activeConfig, pc>>
              ELSE UNCHANGED <<appState, activeConfig, pc>>
    /\ UNCHANGED <<bestConfig, config, paretoData, entityData, entityMap,
                   topAnomalies, chartData2Digit, chartData, validRows,
                   totalAmount, cleanValues, anomalies, rowStrings,
                   invoiceIdMap, scatterData, riskMap, digitCounts,
                   digitCounts2, benfordValidCount, benford2ValidCount,
                   hasTimeData, minDate, maxDate, lowerBound, upperBound,
                   totalAtRisk, riskBreakdown, forecastLoss, conformity,
                   conformity2Digit, riskScore, riskLevel,
                   flowVars>>

\* The timer callback calls performAnalysis: its locals are initialised and
\* the passes follow.
TimerFires ==
    /\ pc = "timer"
    /\ config' = Arguments(activeConfig)
    /\ ClearResult
    /\ pc' = "main"
    /\ UNCHANGED <<appVars, data>>

\* The end of the timer callback: setAnalysisResult(result) and
\* setAppState(AppState.RESULTS).
ShowResults ==
    /\ pc = "done"
    /\ appState = "ANALYZING"
    /\ appState' = "RESULTS"
    /\ pc' = "idle"
    /\ UNCHANGED <<numericColumns, dateColumns, categoryColumns, idColumns,
                   activeConfig, bestConfig, data, config, paretoData,
                   entityData, entityMap, topAnomalies, chartData2Digit,
                   chartData, validRows, totalAmount, cleanValues, anomalies,
                   rowStrings, invoiceIdMap, scatterData, riskMap, digitCounts,
                   digitCounts2, benfordValidCount, benford2ValidCount,
                   hasTimeData, minDate, maxDate, lowerBound, upperBound,
                   totalAtRisk, riskBreakdown, forecastLoss, conformity,
                   conformity2Digit, riskScore, riskLevel,
                   flowVars>>

\* onSelect of the ColumnSelector shown in the SELECT_COLUMN state; an
\* empty selection is passed as undefined.
HandleColumnSelected(column, dateColumn, categoryColumn, sourceColumn, invoiceColumn) ==
    /\ appState = "SELECT_COLUMN"
    /\ activeConfig' =
           [amountColumn |-> column, dateColumn |-> dateColumn,
            categoryColumn |-> categoryColumn, sourceColumn |-> sourceColumn,
            invoiceColumn |-> invoiceColumn]
    /\ appState' = "ANALYZING"
    /\ pc' = "timer"
    /\ UNCHANGED <<numericColumns, dateColumns, categoryColumns, idColumns,
                   bestConfig, data, config, paretoData, entityData, entityMap,
                   topAnomalies, chartData2Digit, chartData, validRows,
                   totalAmount, cleanValues, anomalies, rowStrings,
                   invoiceIdMap, scatterData, riskMap, digitCounts,
                   digitCounts2, benfordValidCount, benford2ValidCount,
                   hasTimeData, minDate, maxDate, lowerBound, upperBound,
                   totalAtRisk, riskBreakdown, forecastLoss, conformity,
                   conformity2Digit, riskScore, riskLevel,
                   flowVars>>

\* onEditConfig of the dashboard shown in the RESULTS state.
HandleEditConfig ==
    /\ appState = "RESULTS"
    /\ appState' = "SELECT_COLUMN"
    /\ UNCHANGED <<numericColumns, dateColumns, categoryColumns, idColumns,
                   activeConfig, bestConfig, data, config, pc, paretoData,
                   entityData, entityMap, topAnomalies, chartData2Digit,
                   chartData, validRows, totalAmount, cleanValues, anomalies,
                   rowStrings, invoiceIdMap, scatterData, riskMap, digitCounts,
                   digitCounts2, benfordValidCount, benford2ValidCount,
                   hasTimeData, minDate, maxDate, lowerBound, upperBound,
                   totalAtRisk, riskBreakdown, forecastLoss, conformity,
                   conformity2Digit, riskScore, riskLevel,
                   flowVars>>

\* onReset of the dashboard shown in the RESULTS state.  Nothing is left of
\* the last call of performAnalysis, its arguments included.
HandleReset ==
    /\ appState = "RESULTS"
    /\ data' = <<>>
    /\ numericColumns' = <<>>
    /\ dateColumns' = <<>>
    /\ categoryColumns' = <<>>
    /\ idColumns' = <<>>
    /\ ClearResult
    /\ activeConfig' = NoConfig
    /\ appState' = "UPLOAD"
    /\ config' = NoArguments
    /\ UNCHANGED <<bestConfig, pc>>

\* The choices the ColumnSelector offers: a numeric column for the amount;
\* a listed column or none for the others, the source among the category
\* columns other than the selected category.
Options(columns) == {columns[k] : k \in 1..Len(columns)} \cup {NoCol}

(***************************************************************************)
(* Inputs.                                                                 *)
(***************************************************************************)
MaxRows == 3
MaxOutlierRows == 5
MaxWideRows == 5

Row(a, i, d) == [amt |-> a, inv |-> i, date |-> d]

Config(dateCol, invCol) ==
    [columnName |-> "amt", dateColumnName |-> dateCol, invoiceColumnName |-> invCol,
     categoryColumnName |-> NoCol, sourceColumnName |-> NoCol]

\* The row sequences of 1..n rows over the rows of R.
Datasets(R, n) == UNION {[1..k -> R] : k \in 1..n}

\* Amount cells of every kind: absent, null, empty, not a number, a string
\* with a thousands separator, negative and positive numbers.
AmountCells ==
    {Absent, Null, Str(<<>>), Str(<<"x">>), Str(<<"1", ",", "0", "0", "0">>),
     Num(-50), Num(100)}

AmountRows == {Row(a, Absent, Absent) : a \in AmountCells}

\* Invoice cells: absent, two spellings of one ID, an ID with two leading
\* digits, and the ID 0.
InvoiceCells ==
    {Absent, Str(<<"A", "1">>), Str(<<" ", "A", "1">>), Str(<<"X", "2", "0">>), Num(0)}

InvoiceRows ==
    {Row(a, i, Absent) : a \in {Num(-50), Num(100)}, i \in InvoiceCells}
    \cup {Row(Null, Str(<<"X", "2", "0">>), Absent)}

\* Date cells: absent, not a date, and serial dates before, at and after the
\* epoch.
DateCells == {Absent, Str(<<"x">>), Num(25567), Num(25569), Num(25570), Num(25572)}

DateRows == {Row(a, Absent, d) : a \in {Num(-50), Num(100)}, d \in DateCells}

\* The state of performAnalysis on entry.
Start(rows, cfg) ==
    /\ data = rows
    /\ config = cfg
    /\ appState = "ANALYZING"
    /\ numericColumns = <<>>
    /\ dateColumns = <<>>
    /\ categoryColumns = <<>>
    /\ idColumns = <<>>
    /\ activeConfig = NoConfig
    /\ bestConfig = NoConfig
    /\ pc = "main"
    /\ NoResult

Init ==
    \/ \E rows \in Datasets(AmountRows, MaxRows) : Start(rows, Config(NoCol, NoCol))
    \/ \E rows \in Datasets(InvoiceRows, MaxRows) : Start(rows, Config(NoCol, "inv"))
    \/ \E rows \in Datasets(DateRows, MaxRows) : Start(rows, Config("date", NoCol))

Spec == Init /\ [][Next]_vars

\* Numeric amounts only, enough rows for outliers on both sides of the
\* IQR bounds and for amounts that sit exactly on a bound.
OutlierAmounts == {-4, 0, 2, 5, 6}

OutlierRows == {Row(Num(a), Absent, Absent) : a \in OutlierAmounts}

InitOutlier ==
    \E rows \in Datasets(OutlierRows, MaxOutlierRows) : Start(rows, Config(NoCol, NoCol))

SpecOutlier == InitOutlier /\ [][Next]_vars

\* Few kinds of row and many rows: rows that are at once outliers,
\* duplicates and negative.
WideRows ==
    {Row(Num(-500), Str(<<"A", "1">>), Absent),
     Row(Num(-50), Str(<<"A", "1">>), Absent),
     Row(Num(100), Str(<<"A", "1">>), Absent),
     Row(Num(-50), Absent, Absent)}

InitWide ==
    \E rows \in Datasets(WideRows, MaxWideRows) : Start(rows, Config(NoCol, "inv"))

SpecWide == InitWide /\ [][Next]_vars

\* Invoice numbers per leading two digits 10..99 of a ledger of 150 rows that
\* follows Benford's law.
Benford150 ==
    <<6, 6, 5, 5, 4, 4, 4, 4, 3, 3,
      3, 3, 3, 3, 3, 2, 2, 2, 2, 2,
      2, 2, 2, 2, 2, 2, 2, 2, 2, 2,
      2, 1, 1, 1, 1, 1, 1, 1, 1, 1,
      1, 1, 1, 1, 1, 1, 1, 1, 1, 1,
      1, 1, 1, 1, 1, 1, 1, 1, 1, 1,
      1, 1, 1, 1, 1, 1, 1, 1, 1, 1,
      1, 1, 1, 1, 1, 1, 1, 1, 1, 1,
      1, 1, 1, 1, 1, 1, 1, 1, 1, 1>>

\* A ledger of 20 rows with c(d) invoice numbers of leading digits d0.
Ledger20(c) == [k \in 1..90 |-> IF (k - 1) % 10 = 0 THEN c[((k - 1) \div 10) + 1] ELSE 0]

LedgerProfiles ==
    {Benford150,
     Ledger20(<<6, 4, 3, 2, 1, 1, 1, 1, 1>>),
     Ledger20(<<6, 4, 2, 2, 2, 1, 1, 1, 1>>),
     Ledger20(<<20, 0, 0, 0, 0, 0, 0, 0, 0>>)}

\* The invoice numbers of a profile: counts[d - 9] distinct numbers of
\* leading two digits d, for d = 10..99.
LedgerIds(counts) ==
    LET cum[k \in 0..90] == IF k = 0 THEN 0 ELSE cum[k - 1] + counts[k]
    IN  [i \in 1..cum[90] |->
            LET k == CHOOSE j \in 1..90 : cum[j - 1] < i /\ i <= cum[j]
            IN  (k + 9) * 100 + (i - cum[k - 1] - 1)]

\* A ledger: dups pairs of identical rows, then outliers rows of a very large
\* amount, then rounds rows of a round amount, then ordinary rows.
Ledger(p) ==
    LET ids == LedgerIds(p.counts)
        base(i) ==
            Row(Num(IF i <= 2 * p.dups THEN 5001 + i
                    ELSE IF i <= 2 * p.dups + p.outliers THEN 90000 + i
                    ELSE IF i <= 2 * p.dups + p.outliers + p.rounds THEN 5000
                    ELSE 5001 + i),
                Num(ids[i]), Absent)
    IN  [i \in 1..Len(ids) |->
            IF i <= 2 * p.dups /\ i % 2 = 0 THEN base(i - 1) ELSE base(i)]

LedgerParams ==
    [counts : LedgerProfiles, dups : {0, 1, 4}, outliers : {0, 1, 2, 8},
     rounds : {0, 1, 2, 3, 8, 16}]

InitScore ==
    \/ \E p \in LedgerParams : Start(Ledger(p), Config(NoCol, "inv"))
    \/ \E rows \in Datasets(AmountRows, 1) : Start(rows, Config(NoCol, NoCol))

SpecScore == InitScore /\ [][Next]_vars

\* Rows with a category: entities of one and of several rows, rows without a
\* category, the category 0, amounts that cancel, and a row without amount.
MaxEntityRows == 3
MaxClusterRows == 5

RowCat(a, c) == [amt |-> a, cat |-> c]

CategoryConfig == [Config(NoCol, NoCol) EXCEPT !.categoryColumnName = "cat"]

EntityCells == {Absent, Str(<<"a">>), Str(<<"b">>), Num(0)}

EntityRows ==
    {RowCat(a, c) : a \in {Num(-5), Num(5)}, c \in EntityCells}
    \cup {RowCat(Null, Str(<<"a">>))}

\* Two categories over the amounts 0 and 100: with five rows the upper bound
\* can lie below an entity's average.
ClusterRows == {RowCat(Num(a), Str(<<c>>)) : a \in {0, 100}, c \in {"a", "b"}}

\* A ledger of p.rows rows: row i has the amount i, the first p.missing rows
\* no amount; the last p.big rows belong to one category, every other row
\* to a category of its own.
CategoryLedger(p) ==
    [i \in 1..p.rows |->
        RowCat(IF i <= p.missing THEN Null ELSE Num(i),
               IF i > p.rows - p.big THEN Str(<<"b", "i", "g">>)
               ELSE Str(<<"v">> \o NatToString(i)))]

CategoryLedgerParams ==
    [rows : {31, 50, 51, 52, 60}, big : {1, 5, 6, 7}, missing : {0, 2}]

InitEntity ==
    \/ \E rows \in Datasets(EntityRows, MaxEntityRows) : Start(rows, CategoryConfig)
    \/ \E rows \in Datasets(ClusterRows, MaxClusterRows) : Start(rows, CategoryConfig)
    \/ \E p \in CategoryLedgerParams : Start(CategoryLedger(p), CategoryConfig)

SpecEntity == InitEntity /\ [][Next]_vars

\* Rows with a source and a target: a missing source, the source 0, names
\* that hold the separator of the link key, a negative amount and a row
\* without amount.
MaxFlowRows == 2
MaxDatedRows == 3

FlowRow(a, s, c) == [amt |-> a, src |-> s, cat |-> c]

FlowConfig ==
    [Config(NoCol, NoCol) EXCEPT !.categoryColumnName = "cat",
                                 !.sourceColumnName = "src"]

SourceCells == {Absent, Num(0), Str(<<"a">>), Str(<<"a", "|", "b">>)}

TargetCells == {Str(<<"b">>), Str(<<"c">>), Str(<<"b", "|", "c">>)}

FlowRows ==
    {FlowRow(Num(5), s, c) : s \in SourceCells, c \in TargetCells}
    \cup {FlowRow(Num(-5), Str(<<"a">>), Str(<<"b">>)),
          FlowRow(Null, Str(<<"a">>), Str(<<"b">>))}

\* A ledger of p.rows rows: row i has the amount i (the amount 1 in a flat
\* ledger), the first p.missing rows no amount; the sources rotate over
\* three names; the last p.big rows go from one source to one target, every
\* other row to a target of its own.
FlowLedger(p) ==
    [i \in 1..p.rows |->
        FlowRow(IF i <= p.missing THEN Null ELSE Num(IF p.flat THEN 1 ELSE i),
                IF i > p.rows - p.big THEN Str(<<"s", "0">>)
                ELSE Str(<<"s">> \o NatToString(i % 3)),
                IF i > p.rows - p.big THEN Str(<<"b", "i", "g">>)
                ELSE Str(<<"t">> \o NatToString(i)))]

FlowLedgerParams ==
    [rows : {40, 52, 60}, big : {1, 6}, missing : {0, 2}, flat : BOOLEAN]

\* Rows with a date and a category: no date, a string that is no date, the
\* serial date 0, serial dates in and out of order, a negative amount and a
\* row without amount.
DatedRow(a, d) == [amt |-> a, date |-> d, cat |-> Str(<<"a">>)]

DatedConfig == [Config("date", NoCol) EXCEPT !.categoryColumnName = "cat"]

DatedCells ==
    {Absent, Str(<<"x">>), Num(0), Num(25569), Num(25570), Num(25572)}

DatedRows ==
    {DatedRow(Num(100), d) : d \in DatedCells}
    \cup {DatedRow(Num(-50), Num(25570)), DatedRow(Null, Num(25569))}

InitFlow ==
    \/ \E rows \in Datasets(FlowRows, MaxFlowRows) : Start(rows, FlowConfig)
    \/ \E p \in FlowLedgerParams : Start(FlowLedger(p), FlowConfig)
    \/ \E rows \in Datasets(DatedRows, MaxDatedRows) : Start(rows, DatedConfig)

SpecFlow == InitFlow /\ [][Next]_vars

\* Loaded sheets.  A column has one kind of content; the cell of data row i
\* is given by the kind, and sheet_to_json leaves an empty cell out of the
\* row object.
MaxColumns == 2
MaxLoadedRows == 3
MaxAppColumns == 2
MaxAppRows == 2

ColumnKinds ==
    {"count", "same", "serial", "bound", "text", "code", "mixed", "late", "zero"}

Content(kind, i) ==
    CASE kind = "count" -> Num(i)
      [] kind = "same" -> Num(5)
      [] kind = "serial" -> Num(45000)
      [] kind = "bound" -> IF i % 2 = 1 THEN Num(30000) ELSE Num(60000)
      [] kind = "text" -> Str(<<"x">>)
      [] kind = "code" -> Str(<<"A", "1">>)
      [] kind = "mixed" -> IF i % 2 = 1 THEN Num(5) ELSE Str(<<"x">>)
      [] kind = "late" -> IF i = 1 THEN Absent ELSE Num(5)
      [] kind = "zero" -> Num(0)

\* The sheet of n rows whose columns have the kinds given by f.
Sheet(f, n) ==
    [i \in 1..n |->
        [h \in {c \in DOMAIN f : Content(f[c], i) # Absent} |-> Content(f[h], i)]]

\* The sheets of up to maxColumns columns and maxRows rows without a blank
\* row (sheet_to_json skips blank rows).
Sheets(headers, kinds, maxColumns, maxRows) ==
    LET layouts == UNION {[S -> kinds] :
                          S \in {T \in SUBSET headers :
                                     T # {} /\ Cardinality(T) <= maxColumns}}
        all == {Sheet(f, n) : f \in layouts, n \in 1..maxRows}
    IN  {sheet \in all : \A i \in 1..Len(sheet) : DOMAIN sheet[i] # {}}

DetectHeaders == {"Qty", "Total", "Cost", "Paid", "Type", "Date"}

DetectSheets == Sheets(DetectHeaders, ColumnKinds, MaxColumns, MaxLoadedRows) \cup {<<>>}

\* detectBestColumns applied to a sheet, the empty one included.
InitDetect ==
    /\ data \in DetectSheets
    /\ config = NoArguments
    /\ appState = "UPLOAD"
    /\ numericColumns = <<>>
    /\ dateColumns = <<>>
    /\ categoryColumns = <<>>
    /\ idColumns = <<>>
    /\ activeConfig = NoConfig
    /\ bestConfig = NoConfig
    /\ pc = "detect"
    /\ NoResult

SpecDetect == InitDetect /\ [][NextDetect]_vars

AppHeaders == {"Qty", "Total", "Type"}

AppKinds == {"same", "text"}

AppSheets == Sheets(AppHeaders, AppKinds, MaxAppColumns, MaxAppRows)

\* The App component after construction.
InitApp ==
    /\ data = <<>>
    /\ config = NoArguments
    /\ appState = "UPLOAD"
    /\ numericColumns = <<>>
    /\ dateColumns = <<>>
    /\ categoryColumns = <<>>
    /\ idColumns = <<>>
    /\ activeConfig = NoConfig
    /\ bestConfig = NoConfig
    /\ pc = "idle"
    /\ NoResult

NextApp ==
    \/ \E loadedData \in AppSheets : HandleDataLoaded(loadedData)
    \/ TimerFires
    \/ Next
    \/ ShowResults
    \/ \E column \in Options(numericColumns) \ {NoCol},
          dateColumn \in Options(dateColumns),
          categoryColumn \in Options(categoryColumns),
          invoiceColumn \in Options(idColumns) :
          \E sourceColumn \in Options(categoryColumns) \ ({categoryColumn} \ {NoCol}) :
              HandleColumnSelected(column, dateColumn, categoryColumn, sourceColumn,
                                   invoiceColumn)
    \/ HandleEditConfig
    \/ HandleReset

SpecApp == InitApp /\ [][NextApp]_vars

(***************************************************************************)
(* Vocabulary of the properties.                                           *)
(***************************************************************************)
RowIndices == 1..Len(data)

AmountCell(i) == Cell(data[i], config.columnName)

\* The amount of row i is null, absent, the empty string or a string that
\* does not parse as a number.
IsMissingRow(i) ==
    \/ AmountCell(i).t \in {"null", "undefined"}
    \/ /\ AmountCell(i).t = "string"
       /\ (AmountCell(i).s = <<>> \/ ParseFloat(StripCommas(AmountCell(i).s)).nan)

ValidRowSet == {i \in RowIndices : ~IsMissingRow(i)}

\* The amount of a valid row.
AmountOf(i) ==
    IF AmountCell(i).t = "string" THEN ParseFloat(StripCommas(AmountCell(i).s)).n
    ELSE AmountCell(i).n

\* The anomalies of row i of the given type.
Flags(anoms, i, type) ==
    {k \in 1..Len(anoms) : anoms[k].rowIndex = i /\ anoms[k].type = type}

Flagged(anoms, i, type) == Flags(anoms, i, type) # {}

\* Row i has an entry in the risk map m, of amount v.
Charged(m, i, v) == i \in DOMAIN m /\ m[i] = v

\* Row i has the same entry, or no entry, in the risk maps m and n.
SameCharge(m, n, i) ==
    /\ i \in DOMAIN m <=> i \in DOMAIN n
    /\ i \in DOMAIN m => m[i] = n[i]

(***************************************************************************)
(* C1: every row is either missing (one 'Missing Value' anomaly, not       *)
(* counted in validRows) or valid (counted, none); a valid negative row    *)
(* has exactly one 'Negative Amount' anomaly carrying its amount; and      *)
(* validRows + number of 'Missing Value' anomalies = number of rows.       *)
(***************************************************************************)
C1_RowClassification ==
    pc # "main" =>
        /\ \A i \in RowIndices :
              /\ IsMissingRow(i) => Cardinality(Flags(anomalies, i, MissingValue)) = 1
              /\ ~IsMissingRow(i) => Flags(anomalies, i, MissingValue) = {}
              /\ (~IsMissingRow(i) /\ AmountOf(i) < 0) =>
                    /\ Cardinality(Flags(anomalies, i, NegativeAmount)) = 1
                    /\ \A k \in Flags(anomalies, i, NegativeAmount) :
                          anomalies[k].value = Num(AmountOf(i))
        /\ validRows = Cardinality(ValidRowSet)
        /\ validRows + CountType(anomalies, {MissingValue}) = Len(data)

C1_Witness ==
    /\ pc = "done"
    /\ \E i, j, k \in RowIndices :
          /\ AmountCell(i) = Null
          /\ AmountCell(j) = Str(<<"x">>)
          /\ k \in ValidRowSet /\ AmountOf(k) < 0

(***************************************************************************)
(* C2: rows with a missing amount take part in the duplicate checks: two   *)
(* rows with a missing amount that are identical in every column are each  *)
(* flagged 'Duplicate Record' besides 'Missing Value'.                     *)
(***************************************************************************)
C2_MissingRowsAreCheckedForDuplicates ==
    pc = "done" =>
        \A i, j \in RowIndices :
            (i # j /\ IsMissingRow(i) /\ IsMissingRow(j) /\ data[i] = data[j]) =>
                /\ Flagged(anomalies, i, MissingValue)
                /\ Flagged(anomalies, i, DuplicateRecord)

(***************************************************************************)
(* C3: scatterData has exactly one point per valid row and none for a row  *)
(* flagged 'Missing Value'; no row flagged 'Missing Value' is flagged      *)
(* 'Statistical Outlier'; the outlier anomalies do not outnumber the valid *)
(* rows.                                                                   *)
(***************************************************************************)
C3_ScatterCoversValidRows ==
    pc = "done" =>
        /\ Len(scatterData) = validRows
        /\ \A i \in RowIndices :
              Cardinality({k \in 1..Len(scatterData) : scatterData[k].id = i})
                  = (IF Flagged(anomalies, i, MissingValue) THEN 0 ELSE 1)
        /\ \A i \in RowIndices :
              ~(Flagged(anomalies, i, MissingValue)
                /\ Flagged(anomalies, i, StatisticalOutlier))
        /\ CountType(anomalies, {StatisticalOutlier}) <= validRows

(***************************************************************************)
(* C4: with the n valid amounts sorted ascending, Q1 = sorted[floor(n/4)], *)
(* Q3 = sorted[floor(3n/4)] (0-based) and IQR = Q3 - Q1, a valid row is an *)
(* outlier (isOutlier and a 'Statistical Outlier' anomaly) iff its amount  *)
(* is strictly below Q1 - 1.5 IQR or strictly above Q3 + 1.5 IQR; an       *)
(* amount equal to a bound is not an outlier.                              *)
(***************************************************************************)
IsAscending(s) == \A k \in 1..(Len(s) - 1) : s[k] <= s[k + 1]

\* The sequence s holds the amounts of the valid rows, each as often as it
\* occurs among them.
HoldsValidAmounts(s) ==
    /\ Len(s) = Cardinality(ValidRowSet)
    /\ \A i \in ValidRowSet :
          Cardinality({k \in 1..Len(s) : s[k] = AmountOf(i)})
              = Cardinality({j \in ValidRowSet : AmountOf(j) = AmountOf(i)})

C4_OutlierIffStrictlyOutsideBounds ==
    (pc \notin {"main", "outliers"} /\ ValidRowSet # {}) =>
        /\ IsAscending(cleanValues)
        /\ HoldsValidAmounts(cleanValues)
        /\ LET n == Len(cleanValues)
               Q1 == cleanValues[(n \div 4) + 1]
               Q3 == cleanValues[((3 * n) \div 4) + 1]
               IQR == Q3 - Q1
               \* 2 * amount against 2 * Q1 - 3 * IQR and 2 * Q3 + 3 * IQR
               Outside(a) == 2 * a < 2 * Q1 - 3 * IQR \/ 2 * a > 2 * Q3 + 3 * IQR
           IN  \A i \in ValidRowSet :
                  /\ \E k \in 1..Len(scatterData) :
                        /\ scatterData[k].id = i
                        /\ scatterData[k].amount = AmountOf(i)
                        /\ scatterData[k].isOutlier = Outside(AmountOf(i))
                  /\ Flagged(anomalies, i, StatisticalOutlier) <=> Outside(AmountOf(i))

C4_Witness ==
    /\ pc = "done"
    /\ ~lowerBound.nan /\ ~upperBound.nan
    /\ \E i, j, k, l \in ValidRowSet :
          /\ 2 * AmountOf(i) < lowerBound.n
          /\ Flagged(anomalies, i, StatisticalOutlier)
          /\ 2 * AmountOf(j) > upperBound.n
          /\ Flagged(anomalies, j, StatisticalOutlier)
          /\ 2 * AmountOf(k) = upperBound.n
          /\ ~Flagged(anomalies, k, StatisticalOutlier)
          /\ 2 * AmountOf(l) = lowerBound.n
          /\ ~Flagged(anomalies, l, StatisticalOutlier)

(***************************************************************************)
(* C5: among the rows that have an amount, the rows of equal serialization *)
(* form a group; in a group of more than one row every member is flagged   *)
(* 'Duplicate Record', every member after the first is charged the         *)
(* absolute amount of the first member - and still is in the result -,     *)
(* and the exact-duplicate pass leaves the risk entry of the first member  *)
(* as it was.                                                              *)
(***************************************************************************)
ExactGroupOf(i) ==
    {j \in ValidRowSet : JSONStringify(data[j]) = JSONStringify(data[i])}

FirstOf(G) == CHOOSE i \in G : \A j \in G : i <= j

InvoiceCell(i) == Cell(data[i], config.invoiceColumnName)

\* Row i has an invoice value whose trimmed string is not empty.
HasInvoiceId(i) ==
    /\ config.invoiceColumnName # NoCol
    /\ InvoiceCell(i).t \in {"string", "number"}
    /\ Trim(JSString(InvoiceCell(i))) # <<>>

InvoiceGroupOf(i) ==
    {j \in ValidRowSet :
        HasInvoiceId(j) /\ Trim(JSString(InvoiceCell(j))) = Trim(JSString(InvoiceCell(i)))}

\* The rule of C6 for the rows of E that have an invoice value, over a step
\* of the invoice pass.
InvoiceRule(E) ==
    \A i \in E :
        Cardinality(InvoiceGroupOf(i)) > 1 =>
            /\ Flagged(anomalies', i, DuplicateInvoiceID)
                   <=> ~Flagged(anomalies', i, DuplicateRecord)
            /\ Flagged(anomalies', i, DuplicateInvoiceID) =>
                   IF i = FirstOf(InvoiceGroupOf(i))
                   THEN SameCharge(riskMap, riskMap', i)
                   ELSE Charged(riskMap', i, Abs(AmountOf(i)))

C6_InvoiceDuplicates ==
    [][pc = "invoices" => InvoiceRule({i \in ValidRowSet : HasInvoiceId(i)})]_vars

\* The same rule for the rows whose invoice value is not the number 0.
C6_InvoiceDuplicatesNonZero ==
    [][pc = "invoices" =>
          InvoiceRule({i \in ValidRowSet : HasInvoiceId(i) /\ InvoiceCell(i) # Num(0)})]_vars

(***************************************************************************)
(* C7: the risk map has at most one amount per row, totalAtRisk is the sum *)
(* of its amounts, every row of the map is added to exactly one bucket of  *)
(* riskBreakdown by the precedence outlier > duplicate > negative, and the *)
(* three buckets add up to totalAtRisk.                                    *)
(***************************************************************************)
\* The rows of the risk map that go to each bucket.
OutlierBucket == {i \in DOMAIN riskMap : Flagged(anomalies, i, StatisticalOutlier)}

DuplicateBucket ==
    {i \in DOMAIN riskMap \ OutlierBucket :
        Flagged(anomalies, i, DuplicateRecord) \/ Flagged(anomalies, i, DuplicateInvoiceID)}

NegativeBucket ==
    {i \in DOMAIN riskMap \ (OutlierBucket \cup DuplicateBucket) :
        Flagged(anomalies, i, NegativeAmount)}

C7_RiskBreakdown ==
    pc \in {"forecast", "benford", "score", "return", "done"} =>
        /\ DOMAIN riskMap \subseteq RowIndices
        /\ totalAtRisk = SumOver(riskMap, DOMAIN riskMap)
        /\ DOMAIN riskMap = OutlierBucket \cup DuplicateBucket \cup NegativeBucket
        /\ riskBreakdown.outliers = SumOver(riskMap, OutlierBucket)
        /\ riskBreakdown.duplicates = SumOver(riskMap, DuplicateBucket)
        /\ riskBreakdown.negatives = SumOver(riskMap, NegativeBucket)
        /\ riskBreakdown.outliers + riskBreakdown.duplicates + riskBreakdown.negatives
               = totalAtRisk

C7_Witness ==
    /\ pc = "done"
    /\ \E i \in OutlierBucket :
          /\ Flagged(anomalies, i, DuplicateInvoiceID)
          /\ Flagged(anomalies, i, NegativeAmount)
          /\ riskMap[i] > 0
    /\ \E j \in DuplicateBucket : Flagged(anomalies, j, NegativeAmount)
    /\ NegativeBucket # {}

(***************************************************************************)
(* C8: with daySpan the latest minus the earliest parsed date (in days)    *)
(* over the valid rows with a parseable date, forecastLoss is              *)
(* totalAtRisk / daySpan * 365 if a date was parsed and daySpan > 1,       *)
(* totalAtRisk if a date was parsed and daySpan <= 1 (daySpan = 0          *)
(* included), and totalAtRisk * 12 only if no date was parsed.             *)
(***************************************************************************)
DateCell(i) == Cell(data[i], config.dateColumnName)

\* The parsed dates of the valid rows, in days.
ParsedDates ==
    {DateOf(DateCell(i)).n :
        i \in {j \in ValidRowSet :
                  config.dateColumnName # NoCol /\ ~DateOf(DateCell(j)).nan}}

Latest(S) == CHOOSE x \in S : \A y \in S : y <= x
Earliest(S) == CHOOSE x \in S : \A y \in S : x <= y

C8_ForecastLoss ==
    pc = "done" =>
        IF ParsedDates = {}
        THEN forecastLoss.num = 12 * totalAtRisk * forecastLoss.den
        ELSE LET daySpan == Latest(ParsedDates) - Earliest(ParsedDates)
             IN  IF daySpan > 1
                 THEN forecastLoss.num * daySpan = 365 * totalAtRisk * forecastLoss.den
                 ELSE forecastLoss.num = totalAtRisk * forecastLoss.den

(***************************************************************************)
(* C9: riskScore = min(100, B + O + D + R): B = 25 / 15 / 0 for 1-digit    *)
(* Nonconformity / Marginally Acceptable / else, plus 10 for 2-digit       *)
(* Nonconformity; O = 25 / 15 / 5 / 0 for an outlier rate > 5% / > 1% /    *)
(* > 0 / else; D = 20 / 10 / 0 for a duplicate rate > 5% / > 0 / else;     *)
(* R = 20 / 10 / 0 for a rate of non-zero multiples of 1000 > 10% / > 5% / *)
(* else; the rates are 0 without valid rows; the score never exceeds 100.  *)
(***************************************************************************)
ScoreB ==
    (CASE conformity = "Nonconformity" -> 25
       [] conformity = "Marginally Acceptable" -> 15
       [] OTHER -> 0)
    + (IF conformity2Digit = "Nonconformity" THEN 10 ELSE 0)

\* count / valid > percent / 100, and 0 / 0 is not
RateAbove(count, valid, percent) == valid > 0 /\ 100 * count > percent * valid

ScoreO ==
    LET outliers == Cardinality({k \in 1..Len(anomalies) :
                                    anomalies[k].type = StatisticalOutlier})
        valid == Cardinality(ValidRowSet)
    IN  CASE RateAbove(outliers, valid, 5) -> 25
          [] RateAbove(outliers, valid, 1) /\ ~RateAbove(outliers, valid, 5) -> 15
          [] RateAbove(outliers, valid, 0) /\ ~RateAbove(outliers, valid, 1) -> 5
          [] OTHER -> 0

ScoreD ==
    LET duplicates == Cardinality({k \in 1..Len(anomalies) :
                                      anomalies[k].type = DuplicateRecord
                                      \/ anomalies[k].type = DuplicateInvoiceID})
        valid == Cardinality(ValidRowSet)
    IN  CASE RateAbove(duplicates, valid, 5) -> 20
          [] RateAbove(duplicates, valid, 0) /\ ~RateAbove(duplicates, valid, 5) -> 10
          [] OTHER -> 0

ScoreR ==
    LET round == Cardinality({i \in ValidRowSet :
                                 AmountOf(i) # 0 /\ Abs(AmountOf(i)) % 1000 = 0})
        valid == Cardinality(ValidRowSet)
    IN  CASE RateAbove(round, valid, 10) -> 20
          [] RateAbove(round, valid, 5) /\ ~RateAbove(round, valid, 10) -> 10
          [] OTHER -> 0

C9_RiskScore ==
    pc \in {"return", "done"} =>
        /\ riskScore <= 100
        /\ IF ScoreB + ScoreO + ScoreD + ScoreR > 100
           THEN riskScore = 100
           ELSE riskScore = ScoreB + ScoreO + ScoreD + ScoreR

C9_Witness ==
    /\ pc = "done"
    /\ conformity = "Marginally Acceptable"
    /\ conformity2Digit = "Nonconformity"
    /\ ScoreO = 15
    /\ ScoreD = 20
    /\ ScoreR = 10
    /\ riskScore = 70

(***************************************************************************)
(* C10: riskLevel is a function of riskScore: 'Critical' iff score >= 75,  *)
(* 'High' iff 50 <= score < 75, 'Medium' iff 25 <= score < 50, 'Low' iff   *)
(* score < 25.                                                             *)
(***************************************************************************)
C10_RiskLevel ==
    pc \in {"return", "done"} =>
        /\ riskLevel = "Critical" <=> riskScore >= 75
        /\ riskLevel = "High" <=> (50 <= riskScore /\ riskScore < 75)
        /\ riskLevel = "Medium" <=> (25 <= riskScore /\ riskScore < 50)
        /\ riskLevel = "Low" <=> riskScore < 25

C10_Witness ==
    /\ pc = "done"
    /\ riskScore = 75
    /\ riskLevel = "Critical"

(***************************************************************************)
(* C11: the Benford source of a row is the raw invoice value when an       *)
(* invoice column is configured and the parsed amount otherwise; for d in  *)
(* 1..9 chartData[d].count is the number of valid rows whose source has    *)
(* the leading digit d, for d in 10..99 chartData2Digit[d].count the       *)
(* number of valid rows whose source has the leading two digits d; rows    *)
(* with a missing amount are not counted; the counts sum to the number of  *)
(* successful extractions and, when that is > 0, the actual% sum to 100.   *)
(***************************************************************************)
BenfordSourceOf(i) ==
    IF config.invoiceColumnName # NoCol THEN InvoiceCell(i) ELSE Num(AmountOf(i))

RowsWithDigit(d) ==
    {i \in ValidRowSet : extractLeadingDigit(BenfordSourceOf(i)) = d}

RowsWithTwoDigits(d) ==
    {i \in ValidRowSet : extractLeadingTwoDigits(BenfordSourceOf(i)) = d}

RECURSIVE SumCounts(_, _, _)
SumCounts(chart, lo, hi) ==
    IF lo > hi THEN 0 ELSE chart[lo].count + SumCounts(chart, lo + 1, hi)

\* The sum of the actual% of the buckets lo..hi is 100.
RECURSIVE SumActualNum(_, _, _)
SumActualNum(chart, lo, hi) ==
    IF lo > hi THEN 0 ELSE chart[lo].actual.num + SumActualNum(chart, lo + 1, hi)

ActualSumIs100(chart, lo, hi) ==
    /\ \A d \in lo..hi : chart[d].actual.den = chart[lo].actual.den
    /\ SumActualNum(chart, lo, hi) = 100 * chart[lo].actual.den

C11_BenfordCounting ==
    pc = "done" =>
        /\ \A d \in 1..9 : chartData[d].count = Cardinality(RowsWithDigit(d))
        /\ \A d \in 10..99 :
               chartData2Digit[d].count = Cardinality(RowsWithTwoDigits(d))
        /\ SumCounts(chartData, 1, 9)
               = Cardinality({i \in ValidRowSet :
                                 extractLeadingDigit(BenfordSourceOf(i)) # 0})
        /\ SumCounts(chartData2Digit, 10, 99)
               = Cardinality({i \in ValidRowSet :
                                 extractLeadingTwoDigits(BenfordSourceOf(i)) # 0})
        /\ SumCounts(chartData, 1, 9) > 0 => ActualSumIs100(chartData, 1, 9)
        /\ SumCounts(chartData2Digit, 10, 99) > 0
               => ActualSumIs100(chartData2Digit, 10, 99)

\* An invoice column is configured; a row without amount and a row of
\* amount -50 both carry the ID X20: one row is counted, under 2 and 20.
C11_Witness ==
    /\ pc = "done"
    /\ config.invoiceColumnName # NoCol
    /\ \E i, j \in RowIndices :
          /\ IsMissingRow(i)
          /\ InvoiceCell(i) = Str(<<"X", "2", "0">>)
          /\ ~IsMissingRow(j)
          /\ AmountOf(j) = -50
          /\ InvoiceCell(j) = Str(<<"X", "2", "0">>)
    /\ chartData[2].count = 1
    /\ chartData2Digit[20].count = 1
    /\ chartData[5].count = 0

(***************************************************************************)
(* C12: the anomalies of the result are in non-decreasing order of         *)
(* rowIndex, whatever the order in which the passes produced them.         *)
(***************************************************************************)
C12_AnomaliesSortedByRow ==
    pc = "done" =>
        \A k \in 1..(Len(anomalies) - 1) :
            anomalies[k].rowIndex <= anomalies[k + 1].rowIndex

\* An anomaly of the invoice pass stands before a 'Negative Amount' of the
\* first pass and a 'Statistical Outlier' of the second, both of later rows.
C12_Witness ==
    /\ pc = "done"
    /\ \E k, l, m \in 1..Len(anomalies) :
          /\ k < l
          /\ k < m
          /\ anomalies[k].type = DuplicateInvoiceID
          /\ anomalies[l].type = NegativeAmount
          /\ anomalies[m].type = StatisticalOutlier
          /\ anomalies[k].rowIndex < anomalies[l].rowIndex
          /\ anomalies[k].rowIndex < anomalies[m].rowIndex

(***************************************************************************)
(* C13: stats.topAnomalies holds min(5, number of anomalies) anomalies,    *)
(* all taken from the anomalies list, in descending order of absolute      *)
(* value (a value that is not a number counts as 0), and no anomaly left   *)
(* out has a larger absolute value than an anomaly included.               *)
(***************************************************************************)
Occurrences(s, a) == Cardinality({k \in 1..Len(s) : s[k] = a})

Range(s) == {s[k] : k \in 1..Len(s)}

\* The absolute value of an anomaly, 0 for a value that is not a number.
AbsoluteValueOf(a) ==
    CASE a.value.t = "number" /\ a.value.n < 0 -> 0 - a.value.n
      [] a.value.t = "number" /\ a.value.n >= 0 -> a.value.n
      [] OTHER -> 0

C13_TopAnomalies ==
    pc = "done" =>
        /\ Len(topAnomalies) = (IF Len(anomalies) < 5 THEN Len(anomalies) ELSE 5)
        /\ \A a \in Range(topAnomalies) :
               Occurrences(topAnomalies, a) <= Occurrences(anomalies, a)
        /\ \A k \in 1..(Len(topAnomalies) - 1) :
               AbsoluteValueOf(topAnomalies[k]) >= AbsoluteValueOf(topAnomalies[k + 1])
        /\ \A a \in Range(anomalies) :
               Occurrences(topAnomalies, a) < Occurrences(anomalies, a) =>
                   \A b \in Range(topAnomalies) :
                       AbsoluteValueOf(a) <= AbsoluteValueOf(b)

\* More than five anomalies: the five kept start with a negative amount of
\* magnitude 500 and a negative amount of magnitude 50 is left out.
C13_Witness ==
    /\ pc = "done"
    /\ Len(anomalies) > 5
    /\ Len(topAnomalies) = 5
    /\ topAnomalies[1].value = Num(-500)
    /\ \E a \in Range(anomalies) :
          /\ a \notin Range(topAnomalies)
          /\ a.value = Num(-50)

(***************************************************************************)
(* C14: with a category column and a total of the valid amounts of 0, no   *)
(* division by zero occurs: every cumulativePercentage of paretoData is a  *)
(* finite number.                                                          *)
(***************************************************************************)
RECURSIVE SumAmounts(_)
SumAmounts(S) ==
    IF S = {} THEN 0
    ELSE LET i == CHOOSE i \in S : TRUE
         IN  AmountOf(i) + SumAmounts(S \ {i})

\* A quotient num / den of the model is a finite number.
IsFinite(q) == q.den # 0

C14_ParetoZeroTotal ==
    (pc = "done" /\ config.categoryColumnName # NoCol /\ SumAmounts(ValidRowSet) = 0) =>
        \A k \in 1..Len(paretoData) : IsFinite(paretoData[k].cumulativePercentage)

(***************************************************************************)
(* C19: with a category column, entityData has one entry per distinct      *)
(* category value among the valid rows (a missing value being the category *)
(* "Unknown"), and an entity's isOutlier is true iff its average amount    *)
(* (total / count) is strictly greater than the global upper bound         *)
(* Q3 + 1.5 * IQR, or its count is strictly greater than 10% of validRows  *)
(* while validRows > 50.                                                   *)
(***************************************************************************)
CategoryCell(i) == Cell(data[i], config.categoryColumnName)

\* The category of row i: the string of its value, "Unknown" when the value
\* is missing (absent, null or the empty string).
CategoryOf(i) ==
    IF CategoryCell(i).t \in {"undefined", "null"} \/ CategoryCell(i) = Str(<<>>)
    THEN <<"U", "n", "k", "n", "o", "w", "n">>
    ELSE JSString(CategoryCell(i))

\* The key the first pass files row i under.
EntityKeyOf(i) == EntityKey(CategoryCell(i))

\* average > upper bound (kept in halves), for count > 0.
AverageAboveUpperBound(total, count) ==
    ~upperBound.nan /\ 2 * total > upperBound.n * count

\* The statement of C19 for the categories Key(i) of the valid rows i: one
\* entry per category, and for every category an entry that holds its rows
\* (their number and their total) and is flagged by the rule.
EntityRule(Key(_)) ==
    LET valid == Cardinality(ValidRowSet)
        categories == {Key(i) : i \in ValidRowSet}
    IN  /\ Len(entityData) = Cardinality(categories)
        /\ \A c \in categories :
               LET rows == {i \in ValidRowSet : Key(i) = c}
               IN  \E j \in 1..Len(entityData) :
                       /\ entityData[j].count = Cardinality(rows)
                       /\ entityData[j].totalAmount = SumAmounts(rows)
                       /\ entityData[j].isOutlier
                              <=> \/ AverageAboveUpperBound(SumAmounts(rows),
                                                            Cardinality(rows))
                                  \/ (10 * Cardinality(rows) > valid /\ valid > 50)

C19_EntityData ==
    (pc = "done" /\ config.categoryColumnName # NoCol) => EntityRule(CategoryOf)

\* The same statement with the categories taken as the first pass keys
\* them, the value 0 filed under "Unknown".
C19_EntityDataByKey ==
    (pc = "done" /\ config.categoryColumnName # NoCol) => EntityRule(EntityKeyOf)

(***************************************************************************)
(* C20: paretoData lists the entities in non-increasing order of total     *)
(* amount, has at most 30 entries (the 30 largest when there are more      *)
(* entities), the k-th cumulativePercentage is 100 * (sum of the totals of *)
(* the first k ranked entities) / (grand total of the valid amounts), and  *)
(* with at most 30 entities and a grand total that is not 0 the last       *)
(* entry is 100.                                                           *)
(***************************************************************************)
RECURSIVE SumValues(_, _)
SumValues(pareto, k) ==
    IF k = 0 THEN 0 ELSE SumValues(pareto, k - 1) + pareto[k].value

\* The quotient q of the model equals num / den, for den # 0.
QuotientIs(q, num, den) == q.den # 0 /\ q.num * den = num * q.den

C20_ParetoRanking ==
    (pc = "done" /\ config.categoryColumnName # NoCol /\ SumAmounts(ValidRowSet) # 0) =>
        LET total == SumAmounts(ValidRowSet)
            entities == Len(entityData)
            kept == {[name |-> paretoData[k].name, value |-> paretoData[k].value] :
                        k \in 1..Len(paretoData)}
        IN  /\ Len(paretoData) = (IF entities < 30 THEN entities ELSE 30)
            /\ \A k \in 1..(Len(paretoData) - 1) :
                   paretoData[k].value >= paretoData[k + 1].value
            /\ \A k \in 1..Len(paretoData) :
                   \E j \in 1..entities :
                       /\ entityData[j].id = paretoData[k].name
                       /\ entityData[j].totalAmount = paretoData[k].value
            /\ \A j \in 1..entities :
                   [name |-> entityData[j].id, value |-> entityData[j].totalAmount]
                           \notin kept
                       => \A k \in 1..Len(paretoData) :
                              entityData[j].totalAmount <= paretoData[k].value
            /\ \A k \in 1..Len(paretoData) :
                   QuotientIs(paretoData[k].cumulativePercentage,
                              100 * SumValues(paretoData, k), total)
            /\ (entities <= 30 /\ entities > 0) =>
                   QuotientIs(paretoData[Len(paretoData)].cumulativePercentage, 100, 1)

\* More than 30 entities: 30 are kept, the one of the six-row category
\* first, and the last percentage is below 100.
C20_Witness ==
    /\ pc = "done"
    /\ Len(entityData) > 30
    /\ Len(paretoData) = 30
    /\ paretoData[1].name = <<"b", "i", "g">>
    /\ entityData[1].id # <<"b", "i", "g">>
    /\ paretoData[30].cumulativePercentage.num
           < 100 * paretoData[30].cumulativePercentage.den

(***************************************************************************)
(* C18: when there are valid amounts and they are all equal, every scatter *)
(* point has zScore 0 (no quotient by the zero deviation is taken);        *)
(* when they are not all equal, the zScore of a point is                   *)
(* (amount - mean) / stdDev, mean being the sum of the valid amounts over  *)
(* their number and stdDev their (non-zero) standard deviation.            *)
(***************************************************************************)
AllValidAmountsEqual ==
    \A i \in ValidRowSet : \A j \in ValidRowSet : AmountOf(i) = AmountOf(j)

\* z is exactly 0.
IsZeroScore(z) == z.zero /\ ~z.nan

\* z is (amount - total / n) / stdDev, stdDev not 0.
IsDeviationScore(z, amount, total, n) ==
    /\ ~z.zero
    /\ ~z.nan
    /\ z.valid = n
    /\ z.dev = n * amount - total

C18_WitnessDeviation ==
    /\ pc = "done"
    /\ ~AllValidAmountsEqual
    /\ \E k \in 1..Len(scatterData) : scatterData[k].zScore.dev > 0
    /\ \E k \in 1..Len(scatterData) : scatterData[k].zScore.dev < 0

(***************************************************************************)
(* C15: detectBestColumns returns null exactly when there are no rows or   *)
(* no column is classified numeric; otherwise amountColumn is the first    *)
(* numeric column, in header order, whose header matches the amount        *)
(* pattern, and the last numeric column when no numeric header matches.    *)
(***************************************************************************)
\* The positions, in the numeric columns of the rows, of the headers that
\* match the amount pattern.
AmountMatches(rows) ==
    {k \in 1..Len(getNumericColumns(rows)) :
         Test(AmountPattern, getNumericColumns(rows)[k])}

\* The columns cols follow the header order of the sheet.
InHeaderOrder(cols) ==
    \A j \in 1..Len(cols) : \A k \in (j + 1)..Len(cols) :
        \E a \in 1..Len(Headers) : \E b \in (a + 1)..Len(Headers) :
            Headers[a] = cols[j] /\ Headers[b] = cols[k]

C15_DetectAmount ==
    pc = "detected" =>
        LET numeric == getNumericColumns(data)
            matches == AmountMatches(data)
        IN  /\ InHeaderOrder(numeric)
            /\ (bestConfig = NoConfig) <=> (data = <<>> \/ numeric = <<>>)
            /\ bestConfig # NoConfig =>
                   IF matches # {}
                   THEN \E k \in matches :
                            /\ bestConfig.amountColumn = numeric[k]
                            /\ \A j \in matches : k <= j
                   ELSE bestConfig.amountColumn = numeric[Len(numeric)]

\* Two numeric columns, neither header matching: the second is the amount.
C15_Witness ==
    /\ pc = "detected"
    /\ bestConfig # NoConfig
    /\ Len(getNumericColumns(data)) = 2
    /\ AmountMatches(data) = {}
    /\ bestConfig.amountColumn = getNumericColumns(data)[2]

\* Two numeric columns whose headers both match: the first is the amount.
C15_WitnessPattern ==
    /\ pc = "detected"
    /\ bestConfig # NoConfig
    /\ AmountMatches(data) = {1, 2}
    /\ bestConfig.amountColumn = getNumericColumns(data)[1]

\* A numeric column that matches after one that does not.
C15_WitnessSkipped ==
    /\ pc = "detected"
    /\ bestConfig # NoConfig
    /\ AmountMatches(data) = {2}
    /\ bestConfig.amountColumn = getNumericColumns(data)[2]

\* No rows: null.
C15_WitnessEmpty == pc = "detected" /\ data = <<>> /\ bestConfig = NoConfig

\* Rows without a numeric column: null.
C15_WitnessNoNumeric ==
    pc = "detected" /\ data # <<>> /\ getNumericColumns(data) = <<>> /\ bestConfig = NoConfig

(***************************************************************************)
(* C16: in every configuration detectBestColumns returns, the category     *)
(* column and the invoice column, when chosen, each differ from the amount *)
(* column and from the date column, whether picked by header pattern or by *)
(* the fallback.                                                           *)
(***************************************************************************)
\* The column c is chosen and is neither the amount nor the date column.
ApartFromAmountAndDate(c, cfg) ==
    c # NoCol => (c # cfg.amountColumn /\ c # cfg.dateColumn)

C16_DistinctColumns ==
    (pc = "detected" /\ bestConfig # NoConfig) =>
        /\ ApartFromAmountAndDate(bestConfig.categoryColumn, bestConfig)
        /\ ApartFromAmountAndDate(bestConfig.invoiceColumn, bestConfig)

\* The part that holds: a column picked by the fallback (no candidate header
\* matches the pattern) differs from the amount and date columns.
C16_FallbackDistinct ==
    (pc = "detected" /\ bestConfig # NoConfig) =>
        /\ findCol(CategoryPattern, getCategoryColumns(data)) = NoCol
               => ApartFromAmountAndDate(bestConfig.categoryColumn, bestConfig)
        /\ findCol(InvoicePattern, getIdColumns(data)) = NoCol
               => ApartFromAmountAndDate(bestConfig.invoiceColumn, bestConfig)

\* A fallback pick happens with an amount column among the candidates.
C16_FallbackWitness ==
    /\ pc = "detected"
    /\ bestConfig # NoConfig
    /\ findCol(InvoicePattern, getIdColumns(data)) = NoCol
    /\ bestConfig.invoiceColumn # NoCol
    /\ \E k \in 1..Len(getIdColumns(data)) :
           getIdColumns(data)[k] = bestConfig.amountColumn

(***************************************************************************)
(* C17: when a file is loaded whose rows have no numeric column            *)
(* (detectBestColumns returns null), the application moves from UPLOAD to  *)
(* SELECT_COLUMN; it neither stays in UPLOAD nor starts an analysis.       *)
(***************************************************************************)
\* A step that loads a file in the UPLOAD state.
FileLoaded == appState = "UPLOAD" /\ data' # data

C17_NullFallsBackToSelection ==
    [][(FileLoaded /\ getNumericColumns(data') = <<>>)
           => appState' = "SELECT_COLUMN"]_vars

\* What the handler does: with a numeric column the analysis starts (the
\* timer is set); without one the application stays in UPLOAD and no timer
\* is set.
C17_NullStaysInUpload ==
    [][FileLoaded =>
           IF getNumericColumns(data') # <<>>
           THEN appState' = "ANALYZING" /\ pc' = "timer" /\ activeConfig' # NoConfig
           ELSE appState' = "UPLOAD" /\ pc' = pc /\ activeConfig' = NoConfig]_vars

\* A loaded file without a numeric column, the application in UPLOAD.
C17_Witness ==
    /\ appState = "UPLOAD"
    /\ data # <<>>
    /\ getNumericColumns(data) = <<>>
    /\ detectBestColumns(data) = NoConfig

(***************************************************************************)
(* C23: in the column classifier a number v is date-like iff               *)
(* 30000 <= v <= 60000, both bounds included, and a column is date-like    *)
(* iff strictly more than half of its sampled rows (the first 10) are      *)
(* date-like.  A configuration has a date column iff a column is           *)
(* date-like.                                                              *)
(***************************************************************************)
\* The positions of the sampled rows: the first 10.
SampledRows(rows) == 1..(IF Len(rows) < 10 THEN Len(rows) ELSE 10)

DateLikeInclusive(val) ==
    \/ val.t = "number" /\ val.n >= 30000 /\ val.n <= 60000
    \/ val.t = "string" /\ ~DateParse(val.s).nan

DateLikeStrict(val) ==
    \/ val.t = "number" /\ val.n > 30000 /\ val.n < 60000
    \/ val.t = "string" /\ ~DateParse(val.s).nan

\* Strictly more than half of the sampled cells of column h are date-like.
MostlyInclusive(rows, h) ==
    2 * Cardinality({k \in SampledRows(rows) : DateLikeInclusive(Cell(rows[k], h))})
        > Cardinality(SampledRows(rows))

MostlyStrict(rows, h) ==
    2 * Cardinality({k \in SampledRows(rows) : DateLikeStrict(Cell(rows[k], h))})
        > Cardinality(SampledRows(rows))

C23_DateLikeInclusive ==
    (pc = "detected" /\ bestConfig # NoConfig) =>
        (bestConfig.dateColumn # NoCol
            <=> \E h \in DOMAIN data[1] : MostlyInclusive(data, h))

\* What the classifier does: the bounds 30000 and 60000 are left out.
C23_DateLikeStrict ==
    (pc = "detected" /\ bestConfig # NoConfig) =>
        /\ bestConfig.dateColumn # NoCol
               <=> \E h \in DOMAIN data[1] : MostlyStrict(data, h)
        /\ bestConfig.dateColumn # NoCol
               => MostlyStrict(data, bestConfig.dateColumn)

\* A column of the serial numbers 30000 and 60000 and no date column.
C23_Witness ==
    /\ pc = "detected"
    /\ bestConfig # NoConfig
    /\ bestConfig.dateColumn = NoCol
    /\ \E h \in DOMAIN data[1] :
           \A k \in 1..Len(data) : Cell(data[k], h).n \in {30000, 60000}

(***************************************************************************)
(* C24: in the result a row carries at most one anomaly of each type and   *)
(* is not flagged both 'Duplicate Record' and 'Duplicate Invoice ID'; the  *)
(* number of duplicate anomalies (duplicateCount) is at most validRows, so *)
(* the duplicate rate is at most 100%.                                     *)
(***************************************************************************)
AnomalyTypes ==
    {MissingValue, NegativeAmount, StatisticalOutlier, DuplicateRecord,
     DuplicateInvoiceID}

\* The anomalies counted by duplicateCount.
DuplicateAnomalies ==
    {k \in 1..Len(anomalies) :
         anomalies[k].type = DuplicateRecord \/ anomalies[k].type = DuplicateInvoiceID}

C24_OneAnomalyPerType ==
    pc = "done" =>
        /\ \A i \in RowIndices : \A type \in AnomalyTypes :
               Cardinality(Flags(anomalies, i, type)) <= 1
        /\ \A i \in RowIndices :
               ~(Flagged(anomalies, i, DuplicateRecord)
                     /\ Flagged(anomalies, i, DuplicateInvoiceID))
        /\ \A k \in 1..Len(anomalies) : anomalies[k].rowIndex \in RowIndices
        /\ Cardinality(DuplicateAnomalies) <= validRows

\* Two identical rows and a third row that shares their invoice ID: the two
\* are flagged 'Duplicate Record' only, the third 'Duplicate Invoice ID', and
\* duplicateCount = validRows = 3.
C24_Witness ==
    /\ pc = "done"
    /\ Len(data) = 3
    /\ validRows = 3
    /\ Flagged(anomalies, 1, DuplicateRecord)
    /\ Flagged(anomalies, 2, DuplicateRecord)
    /\ Flagged(anomalies, 3, DuplicateInvoiceID)
    /\ Cell(data[1], config.invoiceColumnName) = Cell(data[3], config.invoiceColumnName)
    /\ Cardinality(DuplicateAnomalies) = 3

(***************************************************************************)
(* C25: every amount added to riskBreakdown.duplicates is that of a row    *)
(* charged by a duplicate rule - a member, not the first, of an exact      *)
(* duplicate group or of an invoice-ID group; the amount of a row that is  *)
(* in the risk map only for its negative amount is not added to it.        *)
(***************************************************************************)
\* The rows of the risk map whose amount is added to riskBreakdown.duplicates:
\* flagged as a duplicate and not as an outlier.
AddedToDuplicates ==
    {i \in DOMAIN riskMap :
        /\ ~Flagged(anomalies, i, StatisticalOutlier)
        /\ Flagged(anomalies, i, DuplicateRecord)
               \/ Flagged(anomalies, i, DuplicateInvoiceID)}

ChargedByDuplicateRule(i) ==
    /\ i \in ValidRowSet
    /\ \/ Cardinality(ExactGroupOf(i)) > 1 /\ i # FirstOf(ExactGroupOf(i))
       \/ /\ HasInvoiceId(i)
          /\ Cardinality(InvoiceGroupOf(i)) > 1
          /\ i # FirstOf(InvoiceGroupOf(i))

C25_DuplicatesOrNegativeFirst ==
    pc = "done" =>
        /\ riskBreakdown.duplicates = SumOver(riskMap, AddedToDuplicates)
        /\ \A i \in AddedToDuplicates :
               \/ ChargedByDuplicateRule(i)
               \/ /\ i \in ValidRowSet
                  /\ AmountOf(i) < 0
                  /\ Flagged(anomalies, i, NegativeAmount)
                  /\ riskMap[i] = -AmountOf(i)

(***************************************************************************)
(* C26: the members of an exact-duplicate group have the amount of the     *)
(* first member, so the amount the exact-duplicate rule charges a member   *)
(* (the absolute amount of the first) is the member's own absolute amount, *)
(* and totalAtRisk is what charging each row its own amount would give.    *)
(***************************************************************************)
\* The groups of rowStrings: the row indices per serialization.
ExactGroups == {rowStrings[g].indices : g \in 1..Len(rowStrings)}

\* The members of the groups of more than one row but the first.
ExtraMembers ==
    UNION {{indices[k] : k \in 2..Len(indices)} :
               indices \in {G \in ExactGroups : Len(G) > 1}}

C26_OwnAmountCharged ==
    pc = "done" =>
        /\ \A indices \in ExactGroups : \A k \in 1..Len(indices) :
               /\ indices[k] \in ValidRowSet
               /\ AmountOf(indices[k]) = AmountOf(indices[1])
        /\ \A i \in ExtraMembers : Charged(riskMap, i, Abs(AmountOf(i)))
        /\ totalAtRisk
               = SumOver([i \in DOMAIN riskMap |->
                             IF i \in ExtraMembers THEN Abs(AmountOf(i)) ELSE riskMap[i]],
                         DOMAIN riskMap)

\* A group of three rows of a negative amount: the second and the third are
\* charged their own absolute amount.
C26_Witness ==
    /\ pc = "done"
    /\ \E indices \in ExactGroups :
           /\ Len(indices) = 3
           /\ AmountOf(indices[1]) < 0
           /\ Charged(riskMap, indices[2], -AmountOf(indices[2]))
           /\ Charged(riskMap, indices[3], -AmountOf(indices[3]))

(***************************************************************************)
(* C27: riskScore is a multiple of 5 in 0..100; the sum of the four        *)
(* factors is at most 100 (25 + 10 + 25 + 20 + 20), so the cap at 100      *)
(* leaves it as it is; a score of 74 does not occur.                       *)
(***************************************************************************)
C27_ScoreMultipleOfFive ==
    pc \in {"return", "done"} =>
        /\ riskScore \in 0..100
        /\ riskScore % 5 = 0
        /\ ScoreB \in {0, 10, 15, 25, 35}
        /\ ScoreO \in {0, 5, 15, 25}
        /\ ScoreD \in {0, 10, 20}
        /\ ScoreR \in {0, 10, 20}
        /\ ScoreB + ScoreO + ScoreD + ScoreR <= 100
        /\ riskScore = ScoreB + ScoreO + ScoreD + ScoreR
        /\ riskScore # 74

\* Every factor at its maximum: the sum is 100, the cap changes nothing.
C27_Witness ==
    /\ pc = "done"
    /\ ScoreB = 35
    /\ ScoreO = 25
    /\ ScoreD = 20
    /\ ScoreR = 20
    /\ riskScore = 100

(***************************************************************************)
(* C28: when the two-digit extraction of a value gives n in 10..99, the    *)
(* one-digit extraction gives floor(n / 10).  Hence the number of          *)
(* two-digit extractions is at most the number of one-digit extractions,   *)
(* which is at most validRows, and for d in 1..9 the one-digit count of d  *)
(* is at least the sum of the two-digit counts of 10 * d .. 10 * d + 9.    *)
(***************************************************************************)
RECURSIVE SumTwoDigitCounts(_, _)
SumTwoDigitCounts(lo, hi) ==
    IF lo > hi THEN 0 ELSE digitCounts2[lo] + SumTwoDigitCounts(lo + 1, hi)

C28_TwoDigitsImplyOneDigit ==
    pc \in {"outliers", "done"} =>
        /\ \A i \in ValidRowSet :
               LET n == extractLeadingTwoDigits(BenfordSourceOf(i))
               IN  n \in 10..99 => extractLeadingDigit(BenfordSourceOf(i)) = n \div 10
        /\ benford2ValidCount <= benfordValidCount
        /\ benfordValidCount <= validRows
        /\ \A d \in 1..9 :
               digitCounts[d] >= SumTwoDigitCounts(10 * d, 10 * d + 9)

\* Values whose two leading digits were extracted, two of them with the same
\* first digit d and different second digits: d is counted more often than
\* either of the two buckets.
C28_Witness ==
    /\ pc = "done"
    /\ benford2ValidCount > 0
    /\ \E d \in 1..9 : \E a, b \in (10 * d)..(10 * d + 9) :
           /\ a # b
           /\ digitCounts2[a] > 0
           /\ digitCounts2[b] > 0
           /\ digitCounts[d] > digitCounts2[a]

(***************************************************************************)
(* C29: with a category column the entities partition the valid rows: the  *)
(* counts of entityData sum to validRows and its totalAmounts to           *)
(* stats.totalAmount, and a row with a missing amount contributes to no    *)
(* entity (every entity holds valid rows only, as many as its count).      *)
(***************************************************************************)
RECURSIVE SumEntityCounts(_)
SumEntityCounts(k) ==
    IF k = 0 THEN 0 ELSE SumEntityCounts(k - 1) + entityData[k].count

RECURSIVE SumEntityTotals(_)
SumEntityTotals(k) ==
    IF k = 0 THEN 0 ELSE SumEntityTotals(k - 1) + entityData[k].totalAmount

MissingRowSet == {i \in RowIndices : IsMissingRow(i)}

C29_EntitiesPartitionValidRows ==
    (pc = "done" /\ config.categoryColumnName # NoCol) =>
        /\ SumEntityCounts(Len(entityData)) = validRows
        /\ SumEntityTotals(Len(entityData)) = totalAmount
        /\ validRows = Cardinality(ValidRowSet)
        /\ totalAmount = SumAmounts(ValidRowSet)
        /\ \A j \in 1..Len(entityData) :
               entityData[j].count =
                   Cardinality({i \in ValidRowSet : EntityKeyOf(i) = entityData[j].id})
        /\ \A j, k \in 1..Len(entityData) :
               entityData[j].id = entityData[k].id => j = k

\* A row without amount whose category has no entity, beside an entity of
\* several valid rows and another entity.
C29_Witness ==
    /\ pc = "done"
    /\ config.categoryColumnName # NoCol
    /\ \E i \in MissingRowSet :
           \A j \in 1..Len(entityData) : entityData[j].id # EntityKeyOf(i)
    /\ Len(entityData) >= 2
    /\ \E j \in 1..Len(entityData) : entityData[j].count >= 2

\* A row without amount whose category is that of a valid row.
C29_WitnessShared ==
    /\ pc = "done"
    /\ config.categoryColumnName # NoCol
    /\ \E i \in MissingRowSet : \E j \in 1..Len(entityData) :
           entityData[j].id = EntityKeyOf(i) /\ entityData[j].count = 1

(***************************************************************************)
(* C30: for a non-empty input without any valid amount (validRows = 0)     *)
(* stats.averageAmount, the IQR bounds and every zScore of the result are  *)
(* defined numbers, no 'Statistical Outlier' anomaly is produced, and      *)
(* totalAtRisk and forecastLoss are 0.                                     *)
(***************************************************************************)
\* stats.averageAmount of the result: the mean of the outlier pass.
averageAmount == Mean(totalAmount, validRows)

NoValidAmount == pc = "done" /\ Len(data) > 0 /\ validRows = 0

NoOutlierAndNoRisk ==
    /\ \A k \in 1..Len(anomalies) : anomalies[k].type # StatisticalOutlier
    /\ \A k \in 1..Len(scatterData) : ~scatterData[k].isOutlier
    /\ totalAtRisk = 0
    /\ forecastLoss = Frac(0, 1)

C30_DefinedWithoutValidRows ==
    NoValidAmount =>
        /\ IsFinite(averageAmount)
        /\ ~lowerBound.nan
        /\ ~upperBound.nan
        /\ \A k \in 1..Len(scatterData) : ~scatterData[k].zScore.nan
        /\ NoOutlierAndNoRisk

\* What holds without valid rows: the mean and both bounds are NaN, every
\* scatter point (a null amount read as 0) has the z-score NaN, and there is
\* no outlier, no amount at risk and no forecast.
C30_NaNWithoutValidRows ==
    NoValidAmount =>
        /\ ~IsFinite(averageAmount)
        /\ lowerBound.nan
        /\ upperBound.nan
        /\ \A k \in 1..Len(scatterData) :
               scatterData[k].zScore.nan /\ ~scatterData[k].zScore.zero
        /\ NoOutlierAndNoRisk

\* Rows without valid amount, one of them with a scatter point.
C30_Witness ==
    /\ NoValidAmount
    /\ Len(data) >= 2
    /\ Len(scatterData) >= 1
    /\ Len(scatterData) < Len(data)

(***************************************************************************)
(* C22: a valid row whose date value is absent or unparseable is left out  *)
(* of the temporal aggregation only: it raises no anomaly and is counted   *)
(* in validRows, totalAmount, the Benford and the entity statistics.       *)
(* timeSeriesData is sorted ascending by date with one entry per distinct  *)
(* day; its counts sum to the number of valid rows with a parseable date   *)
(* and its amounts to the total amount of those rows.                      *)
(***************************************************************************)
\* The date value of row i is a date: a serial number (the strings of the
\* model are no dates).
HasParseableDate(i) == DateCell(i).t = "number"

\* The same without the serial number 0, which the main pass reads as no
\* value.
HasTruthyDate(i) == DateCell(i).t = "number" /\ DateCell(i).n # 0

\* The day of the date of row i, in days since the epoch.
DayOf(i) == DateCell(i).n - ExcelEpoch

RECURSIVE SumSeriesCounts(_)
SumSeriesCounts(k) ==
    IF k = 0 THEN 0 ELSE SumSeriesCounts(k - 1) + timeSeriesData[k].count

RECURSIVE SumSeriesAmounts(_)
SumSeriesAmounts(k) ==
    IF k = 0 THEN 0 ELSE SumSeriesAmounts(k - 1) + timeSeriesData[k].amount

\* The statement of C22 for the valid rows i with Dated(i).
TimeSeriesRule(Dated(_)) ==
    LET dated == {i \in ValidRowSet : Dated(i)}
        days == {DayOf(i) : i \in dated}
    IN  /\ \A k \in 1..(Len(timeSeriesData) - 1) :
               timeSeriesData[k].date.day < timeSeriesData[k + 1].date.day
        /\ {timeSeriesData[k].date.day : k \in 1..Len(timeSeriesData)} = days
        /\ \A k \in 1..Len(timeSeriesData) :
               LET rows == {i \in dated : DayOf(i) = timeSeriesData[k].date.day}
               IN  /\ timeSeriesData[k].count = Cardinality(rows)
                   /\ timeSeriesData[k].amount = SumAmounts(rows)
        /\ SumSeriesCounts(Len(timeSeriesData)) = Cardinality(dated)
        /\ SumSeriesAmounts(Len(timeSeriesData)) = SumAmounts(dated)
        /\ validRows = Cardinality(ValidRowSet)
        /\ totalAmount = SumAmounts(ValidRowSet)
        /\ benfordValidCount =
               Cardinality({i \in ValidRowSet :
                               extractLeadingDigit(BenfordSourceOf(i)) # 0})
        /\ SumEntityCounts(Len(entityData)) = validRows
        /\ \A k \in 1..Len(anomalies) :
               /\ anomalies[k].type \in AnomalyTypes
               /\ anomalies[k].type = MissingValue
                      => anomalies[k].rowIndex \notin ValidRowSet

C22_TimeSeries ==
    (pc = "done" /\ config.dateColumnName # NoCol) =>
        TimeSeriesRule(HasParseableDate)

\* What holds: the same statement with the serial date 0 taken as no date.
C22_TimeSeriesOfTruthyDates ==
    (pc = "done" /\ config.dateColumnName # NoCol) =>
        TimeSeriesRule(HasTruthyDate)

\* Two days loaded out of order, beside a valid row without date.
C22_Witness ==
    /\ pc = "done"
    /\ config.dateColumnName # NoCol
    /\ Len(timeSeriesData) = 2
    /\ timeSeriesMap # timeSeriesData
    /\ \E i \in ValidRowSet : ~HasParseableDate(i)

\* Two valid rows of one day in one entry, beside another day.
C22_WitnessSameDay ==
    /\ pc = "done"
    /\ Len(timeSeriesData) = 2
    /\ \E k \in 1..2 : timeSeriesData[k].count = 2

\* A valid row with the serial date 0 and no entry in the time series.
C22_WitnessZero ==
    /\ pc = "done"
    /\ timeSeriesData = <<>>
    /\ \E i \in ValidRowSet : DateCell(i) = Num(0)

(***************************************************************************)
(* C21: with a category and a source column, graphData.links are the at    *)
(* most 50 (source, target) pairs with the largest summed amount over the  *)
(* valid rows, in descending order of value; graphData.nodes has exactly   *)
(* one 'source' node per source and one 'target' node per target of the    *)
(* retained links and no other node; a node's value is the sum of the      *)
(* values of the retained links incident to it in its role, so the values  *)
(* of the source nodes and those of the target nodes each sum to the total *)
(* of the retained link values.                                            *)
(***************************************************************************)
SourceCell(i) == Cell(data[i], config.sourceColumnName)

\* The source of row i: the string of its value, "Unknown" when the value
\* is missing (absent, null or the empty string).
SourceOf(i) ==
    IF SourceCell(i).t \in {"undefined", "null"} \/ SourceCell(i) = Str(<<>>)
    THEN <<"U", "n", "k", "n", "o", "w", "n">>
    ELSE JSString(SourceCell(i))

PairOf(i) == <<SourceOf(i), CategoryOf(i)>>

Pairs == {PairOf(i) : i \in ValidRowSet}

PairSum(p) == SumAmounts({i \in ValidRowSet : PairOf(i) = p})

Links == graphData.links

Nodes == graphData.nodes

LinkPair(k) == <<Links[k].source, Links[k].target>>

RECURSIVE SumLinks(_, _, _)
SumLinks(k, type, id) ==
    IF k = 0 THEN 0
    ELSE SumLinks(k - 1, type, id)
         + (IF Links[k][type] = id THEN Links[k].value ELSE 0)

RECURSIVE SumLinkValues(_)
SumLinkValues(k) == IF k = 0 THEN 0 ELSE SumLinkValues(k - 1) + Links[k].value

RECURSIVE SumNodes(_, _)
SumNodes(k, type) ==
    IF k = 0 THEN 0
    ELSE SumNodes(k - 1, type) + (IF Nodes[k].type = type THEN Nodes[k].value ELSE 0)

GraphConfigured ==
    pc = "done" /\ config.categoryColumnName # NoCol /\ config.sourceColumnName # NoCol

GraphRule ==
    /\ Len(Links) = (IF Cardinality(Pairs) < 50 THEN Cardinality(Pairs) ELSE 50)
    /\ \A k \in 1..Len(Links) :
           LinkPair(k) \in Pairs /\ Links[k].value = PairSum(LinkPair(k))
    /\ \A j, k \in 1..Len(Links) : LinkPair(j) = LinkPair(k) => j = k
    /\ \A k \in 1..(Len(Links) - 1) : Links[k].value >= Links[k + 1].value
    /\ \A p \in Pairs \ {LinkPair(k) : k \in 1..Len(Links)} :
           \A k \in 1..Len(Links) : PairSum(p) <= Links[k].value
    /\ {<<Nodes[j].id, Nodes[j].type>> : j \in 1..Len(Nodes)}
           = {<<Links[k].source, "source">> : k \in 1..Len(Links)}
             \cup {<<Links[k].target, "target">> : k \in 1..Len(Links)}
    /\ \A i, j \in 1..Len(Nodes) :
           (Nodes[i].id = Nodes[j].id /\ Nodes[i].type = Nodes[j].type) => i = j
    /\ \A j \in 1..Len(Nodes) :
           Nodes[j].value = SumLinks(Len(Links), Nodes[j].type, Nodes[j].id)
    /\ SumNodes(Len(Nodes), "source") = SumLinkValues(Len(Links))
    /\ SumNodes(Len(Nodes), "target") = SumLinkValues(Len(Links))

C21_GraphOfTopLinks == GraphConfigured => GraphRule

\* The names of the valid rows are plain: none holds the separator "|" of
\* the link key, and no source or target is the number 0.
PlainNames ==
    \A i \in ValidRowSet :
        /\ \A k \in 1..Len(SourceOf(i)) : SourceOf(i)[k] # "|"
        /\ \A k \in 1..Len(CategoryOf(i)) : CategoryOf(i)[k] # "|"
        /\ SourceCell(i) # Num(0)
        /\ CategoryCell(i) # Num(0)

\* What holds: the statement for plain names.
C21_GraphOfPlainNames == (GraphConfigured /\ PlainNames) => GraphRule

\* More than 50 pairs, one of them summed over several rows: 50 links are
\* kept, and a source node sums several of them.
C21_Witness ==
    /\ GraphConfigured
    /\ PlainNames
    /\ Cardinality(Pairs) > 50
    /\ Len(Links) = 50
    /\ Cardinality(Pairs) < Cardinality(ValidRowSet)
    /\ \E j \in 1..Len(Nodes) : \E k \in 1..Len(Links) :
           /\ Nodes[j].type = "source"
           /\ Links[k].source = Nodes[j].id
           /\ Nodes[j].value > Links[k].value

\* A source that holds the separator: the link names a source and a target
\* that no row has.
C21_WitnessSeparator ==
    /\ GraphConfigured
    /\ \E k \in 1..Len(Links) : LinkPair(k) \notin Pairs

====
